---------------------------- MODULE Spec2Model ----------------------------
(***************************************************************************)
(* A model of the AT Protocol record-identity code of nbhd.city:           *)
(*   src/api/atproto/tid.py                 record keys (TIDs)             *)
(*   src/api/atproto/cid.py                 content identifiers (CIDs)     *)
(*   src/lambda/template_analyzer/analyzer.py   frontmatter schema         *)
(*                                              inference                  *)
(*                                                                         *)
(* Representation.  A Python str is the sequence of its code points and a  *)
(* bytes object the sequence of its bytes.  A Python int that may exceed   *)
(* 31 bits (a microsecond timestamp, the packed 64-bit TID) is its binary  *)
(* expansion: the sequence of its bits, most significant first, without    *)
(* leading zeros (zero is the empty sequence), so that shifts, masks and   *)
(* to_bytes act on it as they act on the Python int.                       *)
(***************************************************************************)
EXTENDS Integers, Sequences, FiniteSets, TLC

VARIABLES
    calls,      \* the generate_rkey calls made so far, in call order: what
                \* each read from the clock and the random source, and its result
    decoded,    \* the last call of a TID decoder: its argument and its result
    dag_cbor,   \* cid.py's module global dag_cbor: "module", or "None" when
                \* the import failed
    records,    \* the record value each caller of generate_cid holds
    cids,       \* what generate_cid did when last called on that value
    values,     \* the sample values of one frontmatter field
    fieldType,  \* what infer_field_type returned when last called on them
    samples,    \* the frontmatter samples of one content type
    schema,     \* what infer_schema returned when last called on them
    arg,        \* the argument a caller passes to a validator or a decoder
    verdict,    \* what the function last called on it did
    heap,       \* the objects that callers in different threads pass as arguments
    threads,    \* each thread's position in the call it is making, its locals and its result
    table,      \* the items of the DynamoDB table, by primary key
    lastOp,     \* the last record operation: its arguments, what it read and its outcome
    invocation,  \* the handler invocation of the Lambda container: the event, the position in handler, its locals and what it returned
    dynamodb,   \* the DynamoDB client of handler.py: the template items by template_id, and the calls it has received in this invocation
    tmpdirs,    \* the directories that exist under tempfile.gettempdir()
    SITES_STORE,  \* sites.py's module global: the sites by site_id
    CUSTOM_TEMPLATES,  \* templates.py's module global: the custom templates by template_id
    response,   \* the last request the API served and its answer: the status code and the data
    tasks       \* the create_membership and delete_membership calls in flight or finished

tidVars == <<calls, decoded>>
cidVars == <<dag_cbor, records, cids>>
typeVars == <<values, fieldType>>
schemaVars == <<samples, schema>>
inputVars == <<arg, verdict>>
concVars == <<heap, threads>>
repoVars == <<table, lastOp>>
handlerVars == <<invocation, dynamodb, tmpdirs>>
apiVars == <<SITES_STORE, CUSTOM_TEMPLATES, response>>
memberVars == <<tasks>>
vars == <<tidVars, cidVars, typeVars, schemaVars, inputVars, concVars, repoVars, handlerVars, apiVars, memberVars>>

---------------------------------------------------------------------------
(* Bounds of the model *)

\* how many generate_rkey calls a behaviour makes
MaxCalls == 2

\* how many sample values of a field infer_field_type is given
MaxValues == 3

\* how many frontmatter samples infer_schema is given
MaxSamples == 6

\* how many threads call the pure functions at the same time
MaxThreads == 2

---------------------------------------------------------------------------
(* Python int as a bit sequence *)

Zeros(k) == [i \in 1..k |-> 0]

\* the w-bit big-endian expansion of a small natural n < 2^w
NatBits(n, w) == [i \in 1..w |-> (n \div (2 ^ (w - i))) % 2]

RECURSIVE Strip(_)
Strip(b) == IF b # <<>> /\ b[1] = 0 THEN Strip(Tail(b)) ELSE b

\* the value of a bit sequence of fewer than 31 significant bits
RECURSIVE BitsNat(_)
BitsNat(b) ==
    IF b = <<>> THEN 0
    ELSE 2 * BitsNat(SubSeq(b, 1, Len(b) - 1)) + b[Len(b)]

\* b, zero-extended on the left to w bits (w >= Len(b))
PadTo(b, w) == Zeros(w - Len(b)) \o b

BigShl(b, k) == IF b = <<>> THEN <<>> ELSE b \o Zeros(k)

BigShr(b, k) == IF Len(b) <= k THEN <<>> ELSE SubSeq(b, 1, Len(b) - k)

BigOr(a, b) ==
    LET w == IF Len(a) > Len(b) THEN Len(a) ELSE Len(b)
        x == PadTo(a, w)
        y == PadTo(b, w)
    IN  [i \in 1..w |-> IF x[i] = 1 \/ y[i] = 1 THEN 1 ELSE 0]

BigAnd(a, b) ==
    LET w == IF Len(a) > Len(b) THEN Len(a) ELSE Len(b)
        x == PadTo(a, w)
        y == PadTo(b, w)
    IN  Strip([i \in 1..w |-> IF x[i] = 1 /\ y[i] = 1 THEN 1 ELSE 0])

\* a < b on canonical expansions: shorter is smaller, then the first
\* differing bit decides
BigLess(a, b) ==
    \/ Len(a) < Len(b)
    \/ /\ Len(a) = Len(b)
       /\ \E i \in 1..Len(a) :
            /\ a[i] < b[i]
            /\ \A j \in 1..(i - 1) : a[j] = b[j]

BigLeq(a, b) == a = b \/ BigLess(a, b)

\* the int hi * 2^30 + lo, for hi < 2^30 and lo < 2^30
BigOf(hi, lo) == Strip(NatBits(hi, 30) \o NatBits(lo, 30))

\* int.to_bytes(n, byteorder="big"): OverflowError when the int needs more
\* than n bytes
ToBytes(b, n) ==
    IF Len(b) > 8 * n
    THEN [err |-> "OverflowError", bytes |-> <<>>]
    ELSE LET p == PadTo(b, 8 * n)
         IN  [err |-> "none",
              bytes |-> [k \in 1..n |-> BitsNat(SubSeq(p, 8 * k - 7, 8 * k))]]

BytesBits(bytes) ==
    [i \in 1..(8 * Len(bytes)) |->
        (bytes[((i - 1) \div 8) + 1] \div (2 ^ (7 - ((i - 1) % 8)))) % 2]

\* int.from_bytes(bytes, byteorder="big")
FromBytes(bytes) == Strip(BytesBits(bytes))

---------------------------------------------------------------------------
(* str methods and the base64 module's base-32 codec *)

PadChar == 61   \* "="

\* the RFC 4648 alphabet "ABCDEFGHIJKLMNOPQRSTUVWXYZ234567"
B32Alphabet == [i \in 1..32 |-> IF i <= 26 THEN 64 + i ELSE 23 + i]

RECURSIVE RStripPad(_)
\* s.rstrip("=")
RStripPad(s) ==
    IF s # <<>> /\ s[Len(s)] = PadChar
    THEN RStripPad(SubSeq(s, 1, Len(s) - 1))
    ELSE s

\* s.lower(), on ASCII
Lower(s) == [i \in 1..Len(s) |-> IF s[i] \in 65..90 THEN s[i] + 32 ELSE s[i]]

\* s.upper(), on ASCII
Upper(s) == [i \in 1..Len(s) |-> IF s[i] \in 97..122 THEN s[i] - 32 ELSE s[i]]

\* how many "=" end the last quantum of len % 5 = leftover bytes
B32PadCount(leftover) ==
    CASE leftover = 1 -> 6
      [] leftover = 2 -> 4
      [] leftover = 3 -> 3
      [] leftover = 4 -> 1
      [] OTHER -> 0

\* base64.b32encode(bytes).decode("ascii"): the bytes are zero-padded to
\* whole 5-byte quanta, each rendered as 8 characters of 5 bits, and the
\* characters that carry only padding are replaced by "="
b32encode(bytes) ==
    LET leftover == Len(bytes) % 5
        padded == IF leftover = 0 THEN bytes
                  ELSE bytes \o Zeros(5 - leftover)
        bits == BytesBits(padded)
        nchars == Len(bits) \div 5
        npad == B32PadCount(leftover)
    IN  [c \in 1..nchars |->
            IF c > nchars - npad THEN PadChar
            ELSE B32Alphabet[BitsNat(SubSeq(bits, 5 * c - 4, 5 * c)) + 1]]

\* the table b32rev: the 5-bit value of an alphabet character, -1 for a
\* character outside the alphabet
B32Rev(ch) ==
    IF ch \in 65..90 THEN ch - 65
    ELSE IF ch \in 50..55 THEN ch - 24
    ELSE -1

\* base64.b32decode(s): binascii.Error on a length that is no multiple of 8,
\* on a character outside the alphabet and on an impossible count of "=";
\* the last quantum keeps (43 - 5 * padchars) // 8 of its five bytes
b32decode(s) ==
    LET l == Len(s)
        body == RStripPad(s)
        padchars == l - Len(body)
        nquanta == (Len(body) + 7) \div 8
        lastlen == Len(body) - 8 * (nquanta - 1)
        qbits == [c \in 1..(8 * nquanta) |->
                    IF c <= Len(body) THEN NatBits(B32Rev(body[c]), 5)
                    ELSE Zeros(5)]
        bits == [i \in 1..(40 * nquanta) |->
                    qbits[((i - 1) \div 5) + 1][((i - 1) % 5) + 1]]
        keep == IF padchars > 0 /\ nquanta > 0
                THEN 5 * (nquanta - 1) + ((43 - 5 * padchars) \div 8)
                ELSE 5 * nquanta
    IN  IF l % 8 # 0
        THEN [err |-> "binascii.Error", bytes |-> <<>>]
        ELSE IF \E c \in 1..Len(body) : B32Rev(body[c]) = -1
        THEN [err |-> "binascii.Error", bytes |-> <<>>]
        ELSE IF padchars \notin {0, 1, 3, 4, 6}
        THEN [err |-> "binascii.Error", bytes |-> <<>>]
        ELSE [err |-> "none",
              bytes |-> [k \in 1..keep |->
                            BitsNat(SubSeq(bits, 8 * k - 7, 8 * k))]]

\* a < b as Python compares two str: by code point, a proper prefix first
StrLess(a, b) ==
    \/ /\ Len(a) < Len(b)
       /\ \A j \in 1..Len(a) : a[j] = b[j]
    \/ \E i \in 1..Len(a) :
            /\ i <= Len(b)
            /\ a[i] < b[i]
            /\ \A j \in 1..(i - 1) : a[j] = b[j]

---------------------------------------------------------------------------
(* Python values: a kind tag k and, by kind, an int n, a str or bytes s,   *)
(* or the entries m of a list or a dict                                    *)

None == [k |-> "NoneType", n |-> 0, s |-> <<>>, m |-> <<>>]
Bool(b) == [k |-> "bool", n |-> IF b THEN 1 ELSE 0, s |-> <<>>, m |-> <<>>]
IntVal(n) == [k |-> "int", n |-> n, s |-> <<>>, m |-> <<>>]
Str(s) == [k |-> "str", n |-> 0, s |-> s, m |-> <<>>]
\* a list of the values items[1], items[2], ...
List(items) ==
    [k |-> "list", n |-> 0, s |-> <<>>,
     m |-> [i \in 1..Len(items) |-> [key |-> <<>>, val |-> items[i]]]]
\* a dict with str keys: its entries [key, val] in insertion order
Dict(entries) == [k |-> "dict", n |-> 0, s |-> <<>>, m |-> entries]
\* a float, by its value in tenths
Float(tenths) == [k |-> "float", n |-> tenths, s |-> <<>>, m |-> <<>>]
\* a datetime.date, as YAML loads an unquoted date: a value whose type is
\* none of str, int, float, bool, list, dict and NoneType
Date == [k |-> "date", n |-> 0, s |-> <<>>, m |-> <<>>]

HasKey(d, key) == \E i \in 1..Len(d.m) : d.m[i].key = key

IndexOf(d, key) == CHOOSE i \in 1..Len(d.m) : d.m[i].key = key

\* d[key]
GetItem(d, key) == d.m[IndexOf(d, key)].val

\* d[key] = v: an existing key keeps its place, a new key goes last
SetItemOf(d, key, v) ==
    IF HasKey(d, key)
    THEN Dict([i \in 1..Len(d.m) |->
                 IF d.m[i].key = key THEN [key |-> key, val |-> v] ELSE d.m[i]])
    ELSE Dict(Append(d.m, [key |-> key, val |-> v]))

\* del d[key]
DelItemOf(d, key) ==
    LET i == IndexOf(d, key)
    IN  Dict(SubSeq(d.m, 1, i - 1) \o SubSeq(d.m, i + 1, Len(d.m)))

Keys(d) == {d.m[i].key : i \in 1..Len(d.m)}

RECURSIVE PyEq(_, _)
\* a and b are the same logical value: same kind, same content, dict
\* entries compared by key whatever their insertion order
PyEq(a, b) ==
    /\ a.k = b.k
    /\ a.n = b.n
    /\ a.s = b.s
    /\ Len(a.m) = Len(b.m)
    /\ IF a.k = "dict"
       THEN /\ Keys(a) = Keys(b)
            /\ \A key \in Keys(a) : PyEq(GetItem(a, key), GetItem(b, key))
       ELSE \A i \in 1..Len(a.m) : PyEq(a.m[i].val, b.m[i].val)

---------------------------------------------------------------------------
(* src/api/atproto/tid.py *)

\* the characters [a-z2-7]
IsB32Lower(ch) == ch \in 97..122 \/ ch \in 50..55

\* re.match(r"^[a-z2-7]{13}$", s): "$" matches at the end of the string and
\* also just before a newline that ends it
MatchesTid(s) ==
    /\ \/ Len(s) = 13
       \/ Len(s) = 14 /\ s[14] = 10
    /\ \A i \in 1..13 : IsB32Lower(s[i])

\* generate_rkey with the packed integer laid out least significant byte
\* first (byteorder="little")
generate_rkey_little_endian(timestamp_us, random_bits) ==
    LET tid_int == BigOr(BigShl(timestamp_us, 10), Strip(NatBits(random_bits, 10)))
        tid_bytes == ToBytes(tid_int, 8)
        little == [k \in 1..Len(tid_bytes.bytes) |->
                     tid_bytes.bytes[Len(tid_bytes.bytes) + 1 - k]]
    IN  IF tid_bytes.err # "none"
        THEN [err |-> tid_bytes.err, rkey |-> <<>>]
        ELSE [err |-> "none", rkey |-> Lower(RStripPad(b32encode(little)))]

\* generate_rkey without the random bits OR'd into the packed integer
generate_rkey_no_random(timestamp_us, random_bits) ==
    LET tid_int == BigShl(timestamp_us, 10)
        tid_bytes == ToBytes(tid_int, 8)
    IN  IF tid_bytes.err # "none"
        THEN [err |-> tid_bytes.err, rkey |-> <<>>]
        ELSE [err |-> "none", rkey |-> Lower(RStripPad(b32encode(tid_bytes.bytes)))]

\* generate_rkey without the final lower()
generate_rkey_upper_case(timestamp_us, random_bits) ==
    LET tid_int == BigOr(BigShl(timestamp_us, 10), Strip(NatBits(random_bits, 10)))
        tid_bytes == ToBytes(tid_int, 8)
    IN  IF tid_bytes.err # "none"
        THEN [err |-> tid_bytes.err, rkey |-> <<>>]
        ELSE [err |-> "none", rkey |-> RStripPad(b32encode(tid_bytes.bytes))]

\* generate_rkey, with its two reads named: timestamp_us is the clock's
\* reading int(time.time() * 1_000_000), random_bits is random.getrandbits(10)
\* generate_rkey with a conversion that keeps the low 64 bits of tid_int
\* instead of raising
generate_rkey_wrapping(timestamp_us, random_bits) ==
    LET full == BigOr(BigShl(timestamp_us, 10), Strip(NatBits(random_bits, 10)))
        tid_int == IF Len(full) > 64
                   THEN Strip(SubSeq(full, Len(full) - 63, Len(full)))
                   ELSE full
        tid_bytes == ToBytes(tid_int, 8)
        b32_with_padding == b32encode(tid_bytes.bytes)
        b32_lowercase == Lower(RStripPad(b32_with_padding))
    IN  [err |-> "none", rkey |-> b32_lowercase]

generate_rkey(timestamp_us, random_bits) ==
    LET tid_int == BigOr(BigShl(timestamp_us, 10), Strip(NatBits(random_bits, 10)))
        tid_bytes == ToBytes(tid_int, 8)
        b32_with_padding == b32encode(tid_bytes.bytes)
        b32_lowercase == Lower(RStripPad(b32_with_padding))
    IN  IF tid_bytes.err # "none"
        THEN [err |-> tid_bytes.err, rkey |-> <<>>]
        ELSE [err |-> "none", rkey |-> b32_lowercase]

base32_to_int(rkey) ==
    LET rkey_upper == Upper(rkey)
        rkey_with_padding == rkey_upper \o <<PadChar, PadChar, PadChar>>
        tid_bytes == b32decode(rkey_with_padding)
    IN  IF tid_bytes.err # "none"
        THEN [err |-> "ValueError", int |-> <<>>]
        ELSE [err |-> "none", int |-> FromBytes(tid_bytes.bytes)]

extract_tid_timestamp(rkey) ==
    IF rkey.k # "str" \/ rkey.s = <<>>
    THEN [err |-> "ValueError", ts |-> <<>>]
    ELSE IF ~MatchesTid(rkey.s)
    THEN [err |-> "ValueError", ts |-> <<>>]
    ELSE LET tid_int == base32_to_int(rkey.s)
         IN  IF tid_int.err # "none"
             THEN [err |-> tid_int.err, ts |-> <<>>]
             ELSE [err |-> "none", ts |-> BigShr(tid_int.int, 10)]

\* extract_tid_components with the mask 0x1FF (nine bits) for 0x3FF
extract_tid_components_mask9(rkey) ==
    IF rkey.k # "str" \/ rkey.s = <<>>
    THEN [err |-> "ValueError", ts |-> <<>>, rand |-> 0]
    ELSE IF ~MatchesTid(rkey.s)
    THEN [err |-> "ValueError", ts |-> <<>>, rand |-> 0]
    ELSE LET tid_int == base32_to_int(rkey.s)
         IN  IF tid_int.err # "none"
             THEN [err |-> tid_int.err, ts |-> <<>>, rand |-> 0]
             ELSE [err |-> "none",
                   ts |-> BigShr(tid_int.int, 10),
                   rand |-> BitsNat(BigAnd(tid_int.int, NatBits(511, 10)))]

extract_tid_components(rkey) ==
    IF rkey.k # "str" \/ rkey.s = <<>>
    THEN [err |-> "ValueError", ts |-> <<>>, rand |-> 0]
    ELSE IF ~MatchesTid(rkey.s)
    THEN [err |-> "ValueError", ts |-> <<>>, rand |-> 0]
    ELSE LET tid_int == base32_to_int(rkey.s)
         IN  IF tid_int.err # "none"
             THEN [err |-> tid_int.err, ts |-> <<>>, rand |-> 0]
             ELSE [err |-> "none",
                   ts |-> BigShr(tid_int.int, 10),
                   rand |-> BitsNat(BigAnd(tid_int.int, NatBits(1023, 10)))]

validate_rkey(rkey) ==
    IF rkey.k # "str" THEN FALSE
    ELSE IF ~MatchesTid(rkey.s) THEN FALSE
    ELSE TRUE

---------------------------------------------------------------------------
(* The record-key generator and its decoders as a state machine *)

\* wall-clock readings, in microseconds since the epoch: the epoch itself,
\* three readings of November 2023 (10 ms and then hours apart), the last
\* reading the 64-bit packing holds (2^54 - 1) and the first it does not
ClockReadings ==
    { BigOf(0, 0),
      BigOf(1583248, 404639648),
      BigOf(1583248, 404649648),
      BigOf(1676380, 681082880),
      BigOf(16777215, 1073741823),
      BigOf(16777216, 0) }

\* values random.getrandbits(10) returns
RandomBits == {0, 682, 1023}

NoDecode == [fn |-> "none", call |-> 0, arg |-> <<>>, err |-> "none", ts |-> <<>>, rand |-> 0]

NotCalled == [err |-> "not called", cid |-> <<>>]

\* the two callers whose record values and CIDs are compared
Callers == {1, 2}

\* the variables of the other components while the record keys are checked
CidIdle ==
    /\ dag_cbor = "module"
    /\ records = [c \in Callers |-> Dict(<<>>)]
    /\ cids = [c \in Callers |-> NotCalled]

TidIdle ==
    /\ calls = <<>>
    /\ decoded = NoDecode

NotInferred == [type |-> "not inferred"]

TypeIdle ==
    /\ values = <<>>
    /\ fieldType = NotInferred

SchemaIdle ==
    /\ samples = <<>>
    /\ schema = NotInferred

NoVerdict == [fn |-> "none", err |-> "none", ok |-> FALSE, ts |-> <<>>, rand |-> 0]

InputIdle ==
    /\ arg = None
    /\ verdict = NoVerdict

Threads == 1..MaxThreads

\* a thread that is in no call
IdleThread ==
    [pc |-> "idle", fn |-> "none", called_with |-> None, i |-> 0,
     locals |-> <<>>, result |-> None]

NoHeap == [values |-> <<>>, samples |-> <<>>, record |-> None, rkey |-> None]

ConcIdle ==
    /\ heap = NoHeap
    /\ threads = [t \in Threads |-> IdleThread]

\* no record operation yet
NoOp ==
    [fn |-> "none", uri |-> None, new_value |-> None, err |-> "none",
     old_record |-> None, result |-> None]

RepoIdle ==
    /\ table = <<>>
    /\ lastOp = NoOp

\* what handler returns: the dict's "status" and "error"
NoResult == [status |-> "none", error |-> "none"]

\* no invocation of handler yet
NoInvocation ==
    [pc |-> "idle", n |-> 0, template_id |-> None, github_url |-> None,
     build_dir |-> 0, succeeded |-> {}, result |-> NoResult]

HandlerIdle ==
    /\ invocation = NoInvocation
    /\ dynamodb = [items |-> <<>>, log |-> <<>>]
    /\ tmpdirs = {}

\* no request served yet
NoResponse == [request |-> [fn |-> "none"], status_code |-> 0, data |-> None]

ApiIdle ==
    /\ SITES_STORE = <<>>
    /\ CUSTOM_TEMPLATES = <<>>
    /\ response = NoResponse

MemberIdle ==
    tasks = <<>>

InitTid ==
    /\ MemberIdle
    /\ ApiIdle
    /\ HandlerIdle
    /\ RepoIdle
    /\ ConcIdle
    /\ InputIdle
    /\ TidIdle
    /\ CidIdle
    /\ TypeIdle
    /\ SchemaIdle

\* one call of generate_rkey: it reads the clock, which may have advanced,
\* stood still or been set back since the call before (time.time() is not
\* monotonic), and draws its random bits
GenerateRkey ==
    /\ Len(calls) < MaxCalls
    /\ \E timestamp_us \in ClockReadings, random_bits \in RandomBits :
         LET res == generate_rkey(timestamp_us, random_bits)
         IN  calls' = Append(calls, [t |-> timestamp_us, r |-> random_bits,
                                     err |-> res.err, rkey |-> res.rkey])
    /\ UNCHANGED <<decoded, cidVars, typeVars, schemaVars, inputVars, concVars, repoVars, handlerVars, apiVars, memberVars>>

ExtractTidTimestamp ==
    /\ \E i \in 1..Len(calls) :
         /\ calls[i].err = "none"
         /\ LET res == extract_tid_timestamp(Str(calls[i].rkey))
            IN  decoded' = [fn |-> "extract_tid_timestamp", call |-> i, arg |-> calls[i].rkey,
                            err |-> res.err, ts |-> res.ts, rand |-> 0]
    /\ UNCHANGED <<calls, cidVars, typeVars, schemaVars, inputVars, concVars, repoVars, handlerVars, apiVars, memberVars>>

ExtractTidComponents ==
    /\ \E i \in 1..Len(calls) :
         /\ calls[i].err = "none"
         /\ LET res == extract_tid_components(Str(calls[i].rkey))
            IN  decoded' = [fn |-> "extract_tid_components", call |-> i, arg |-> calls[i].rkey,
                            err |-> res.err, ts |-> res.ts, rand |-> res.rand]
    /\ UNCHANGED <<calls, cidVars, typeVars, schemaVars, inputVars, concVars, repoVars, handlerVars, apiVars, memberVars>>

NextTid == GenerateRkey \/ ExtractTidTimestamp \/ ExtractTidComponents

SpecTid == InitTid /\ [][NextTid]_vars

---------------------------------------------------------------------------
(* src/api/atproto/cid.py *)

\* the head of a CBOR data item: the major type and an argument n < 2^31,
\* in the shortest form
CborHead(major, n) ==
    IF n < 24 THEN <<32 * major + n>>
    ELSE IF n < 256 THEN <<32 * major + 24, n>>
    ELSE IF n < 65536 THEN <<32 * major + 25, n \div 256, n % 256>>
    ELSE <<32 * major + 26, n \div 16777216, (n \div 65536) % 256,
           (n \div 256) % 256, n % 256>>

\* the canonical order of map keys: shorter keys first, keys of one length
\* by their bytes
KeyLess(a, b) == Len(a) < Len(b) \/ (Len(a) = Len(b) /\ StrLess(a, b))

\* the entries of a dict in canonical key order
CanonicalOrder(entries) ==
    LET rank(i) == Cardinality({j \in 1..Len(entries) :
                                   KeyLess(entries[j].key, entries[i].key)})
    IN  [p \in 1..Len(entries) |->
            entries[CHOOSE i \in 1..Len(entries) : rank(i) = p - 1]]

RECURSIVE Concat(_)
\* the concatenation of a sequence of byte strings
Concat(parts) ==
    IF parts = <<>> THEN <<>> ELSE Head(parts) \o Concat(Tail(parts))

RECURSIVE EncodeItem(_, _)
\* dag_cbor.encode(value), the library cid.py calls: the DAG-CBOR form of the
\* value, with map entries in canonical key order when canonical is TRUE;
\* empty (see Encodable) for a value outside the IPLD data model
EncodeItem(v, canonical) ==
    CASE v.k = "NoneType" -> <<246>>
      [] v.k = "bool" -> IF v.n = 1 THEN <<245>> ELSE <<244>>
      [] v.k = "int" -> IF v.n >= 0 THEN CborHead(0, v.n) ELSE CborHead(1, -1 - v.n)
      [] v.k = "str" -> CborHead(3, Len(v.s)) \o v.s
      [] v.k = "list" ->
            CborHead(4, Len(v.m))
                \o Concat([i \in 1..Len(v.m) |-> EncodeItem(v.m[i].val, canonical)])
      [] v.k = "dict" ->
            LET es == IF canonical THEN CanonicalOrder(v.m) ELSE v.m
            IN  CborHead(5, Len(es))
                    \o Concat([i \in 1..Len(es) |->
                                 CborHead(3, Len(es[i].key)) \o es[i].key
                                     \o EncodeItem(es[i].val, canonical)])
      [] OTHER -> <<>>

RECURSIVE Encodable(_)
\* whether dag_cbor.encode accepts the value
Encodable(v) ==
    /\ v.k \in {"NoneType", "bool", "int", "str", "list", "dict"}
    /\ \A i \in 1..Len(v.m) : Encodable(v.m[i].val)

dag_cbor_encode(v) ==
    IF Encodable(v)
    THEN [err |-> "none", bytes |-> EncodeItem(v, TRUE)]
    ELSE [err |-> "DAGCBOREncodingError", bytes |-> <<>>]

\* hashlib.sha256(data).digest(): 32 bytes that are a function of data
\* alone.  SHA-256 itself is not computed: the digest here folds data and
\* its length into 32 bytes, and nothing below uses more of it than that it
\* is a 32-byte function of the bytes hashed.
sha256(data) ==
    LET fold(i) == LET js == {j \in 1..Len(data) : (j - 1) % 32 = i - 1}
                       RECURSIVE sum(_)
                       sum(S) == IF S = {} THEN 0
                                 ELSE LET j == CHOOSE x \in S : TRUE
                                      IN  data[j] * (1 + 2 * ((j - 1) \div 32))
                                              + sum(S \ {j})
                   IN  sum(js)
    IN  [i \in 1..32 |-> (fold(i) + 31 * Len(data) + 17 * i) % 256]

\* "bafy"
CidPrefix == <<98, 97, 102, 121>>

\* generate_cid hashing the field names of a mapping without their values
generate_cid_keys_only(lib, record_value) ==
    IF lib = "None"
    THEN [err |-> "ImportError", cid |-> <<>>]
    ELSE LET names == IF record_value.k = "dict"
                      THEN List([i \in 1..Len(record_value.m) |->
                                   Str(CanonicalOrder(record_value.m)[i].key)])
                      ELSE record_value
             cbor_bytes == dag_cbor_encode(names)
             sha256_hash == sha256(cbor_bytes.bytes)
         IN  IF ~Encodable(record_value)
             THEN [err |-> "ValueError", cid |-> <<>>]
             ELSE [err |-> "none",
                   cid |-> CidPrefix \o Lower(RStripPad(b32encode(sha256_hash)))]

\* generate_cid hashing the entries of a dict in insertion order
generate_cid_insertion_order(lib, record_value) ==
    IF lib = "None"
    THEN [err |-> "ImportError", cid |-> <<>>]
    ELSE LET cbor_bytes == EncodeItem(record_value, FALSE)
             sha256_hash == sha256(cbor_bytes)
         IN  IF ~Encodable(record_value)
             THEN [err |-> "ValueError", cid |-> <<>>]
             ELSE [err |-> "none",
                   cid |-> CidPrefix \o Lower(RStripPad(b32encode(sha256_hash)))]

\* generate_cid without the rstrip("=")
generate_cid_padded(lib, record_value) ==
    IF lib = "None"
    THEN [err |-> "ImportError", cid |-> <<>>]
    ELSE LET cbor_bytes == dag_cbor_encode(record_value)
             sha256_hash == sha256(cbor_bytes.bytes)
         IN  IF cbor_bytes.err # "none"
             THEN [err |-> "ValueError", cid |-> <<>>]
             ELSE [err |-> "none",
                   cid |-> CidPrefix \o Lower(b32encode(sha256_hash))]

\* generate_cid(record_value); lib is the module global dag_cbor, "None"
\* when the import at the top of cid.py failed
generate_cid(lib, record_value) ==
    IF lib = "None"
    THEN [err |-> "ImportError", cid |-> <<>>]
    ELSE LET cbor_bytes == dag_cbor_encode(record_value)
             sha256_hash == sha256(cbor_bytes.bytes)
             b32_with_padding == b32encode(sha256_hash)
             b32_lowercase == Lower(RStripPad(b32_with_padding))
         IN  IF cbor_bytes.err # "none"
             THEN [err |-> "ValueError", cid |-> <<>>]
             ELSE [err |-> "none", cid |-> CidPrefix \o b32_lowercase]

StartsWith(s, prefix) ==
    /\ Len(s) >= Len(prefix)
    /\ SubSeq(s, 1, Len(prefix)) = prefix

\* re.match(r"^bafy[a-z2-7]+$", s): "$" also matches just before a newline
\* that ends the string
MatchesCid(s) ==
    LET body == IF s # <<>> /\ s[Len(s)] = 10
                THEN SubSeq(s, 1, Len(s) - 1)
                ELSE s
    IN  /\ StartsWith(body, CidPrefix)
        /\ Len(body) >= 5
        /\ \A i \in 5..Len(body) : IsB32Lower(body[i])

validate_cid(cid) ==
    IF cid.k # "str" THEN FALSE
    ELSE IF ~StartsWith(cid.s, CidPrefix) THEN FALSE
    ELSE IF ~MatchesCid(cid.s) THEN FALSE
    ELSE IF Len(cid.s) < 56 THEN FALSE
    ELSE IF Len(cid.s) > 200 THEN FALSE
    ELSE TRUE

---------------------------------------------------------------------------
(* src/lambda/template_analyzer/analyzer.py *)

IsDigit(ch) == ch \in 48..57

IsLetter(ch) == ch \in 65..90 \/ ch \in 97..122

\* the number written by the two digits s[i], s[i + 1]
Num2(s, i) == 10 * (s[i] - 48) + (s[i + 1] - 48)

AllDigits(s, i, n) == \A j \in i..(i + n - 1) : IsDigit(s[j])

IsLeap(y) == (y % 4 = 0 /\ y % 100 # 0) \/ y % 400 = 0

DaysInMonth(y, m) ==
    IF m = 2 THEN (IF IsLeap(y) THEN 29 ELSE 28)
    ELSE IF m \in {4, 6, 9, 11} THEN 30
    ELSE 31

\* "YYYY-MM-DD" naming a day of the calendar
ParsesIsoDate(d) ==
    /\ Len(d) = 10
    /\ AllDigits(d, 1, 4) /\ d[5] = 45 /\ AllDigits(d, 6, 2) /\ d[8] = 45
    /\ AllDigits(d, 9, 2)
    /\ LET y == 100 * Num2(d, 1) + Num2(d, 3)
           m == Num2(d, 6)
       IN  /\ y >= 1
           /\ m \in 1..12
           /\ Num2(d, 9) \in 1..DaysInMonth(y, m)

\* "HH", "HH:MM" or "HH:MM:SS"
ParsesClock(t, maxHour) ==
    /\ Len(t) \in {2, 5, 8}
    /\ AllDigits(t, 1, 2) /\ Num2(t, 1) <= maxHour
    /\ Len(t) >= 5 => (t[3] = 58 /\ AllDigits(t, 4, 2) /\ Num2(t, 4) <= 59)
    /\ Len(t) >= 8 => (t[6] = 58 /\ AllDigits(t, 7, 2) /\ Num2(t, 7) <= 59)

\* a time of day, then nothing or a UTC offset such as "+HH:MM" or "-HH"
ParsesIsoTime(t) ==
    LET signs == {i \in 1..Len(t) : t[i] \in {43, 45}}
    IN  IF signs = {}
        THEN ParsesClock(t, 23)
        ELSE LET i == CHOOSE x \in signs : \A y \in signs : x <= y
                 off == SubSeq(t, i + 1, Len(t))
             IN  /\ ParsesClock(SubSeq(t, 1, i - 1), 23)
                 /\ ParsesClock(off, 23)

\* whether datetime.fromisoformat(s) returns, for strings in the extended
\* format (with "-" and ":"): a date, or a date, any one separator
\* character and a time.  The basic format ("20260101"), week dates and
\* fractions of a second, which fromisoformat also reads, are left out: no
\* string of the model is written in them.
FromIsoFormatParses(s) ==
    \/ ParsesIsoDate(s)
    \/ /\ Len(s) >= 12
       /\ ParsesIsoDate(SubSeq(s, 1, 10))
       /\ ParsesIsoTime(SubSeq(s, 12, Len(s)))

RECURSIVE Replace(_, _, _)
\* s.replace(old, new) for a single character old
Replace(s, old, new) ==
    IF s = <<>> THEN <<>>
    ELSE (IF Head(s) = old THEN new ELSE <<Head(s)>>) \o Replace(Tail(s), old, new)

is_iso_date(value) ==
    FromIsoFormatParses(Replace(value, 90, <<43, 48, 48, 58, 48, 48>>))

\* map_python_type_to_json with "int" given the JSON type "number"
map_python_type_to_json_int_number(python_type) ==
    CASE python_type = "str" -> "string"
      [] python_type = "int" -> "number"
      [] python_type = "float" -> "number"
      [] python_type = "bool" -> "boolean"
      [] python_type = "dict" -> "object"
      [] python_type = "list" -> "array"
      [] OTHER -> "string"

map_python_type_to_json(python_type) ==
    CASE python_type = "str" -> "string"
      [] python_type = "int" -> "integer"
      [] python_type = "float" -> "number"
      [] python_type = "bool" -> "boolean"
      [] python_type = "dict" -> "object"
      [] python_type = "list" -> "array"
      [] OTHER -> "string"

\* the filter that keeps every value, None included
NonNone_keep_all(vals) == vals

\* [v for v in values if v is not None]
NonNone(vals) == SelectSeq(vals, LAMBDA v : v.k # "NoneType")

\* isinstance(v, (int, float)): bool is a subclass of int
IsIntOrFloat(v) == v.k \in {"int", "float", "bool"}

\* infer_field_type with the checks for numbers and booleans in the other
\* order
infer_field_type_number_first(vals) ==
    LET nonnull == NonNone(vals)
        n == Len(nonnull)
    IN  IF nonnull = <<>> THEN [type |-> "string"]
        ELSE IF \A i \in 1..n : nonnull[i].k = "str" /\ is_iso_date(nonnull[i].s)
        THEN [type |-> "string", format |-> "date-time"]
        ELSE IF \A i \in 1..n : nonnull[i].k = "list"
        THEN IF \E i \in 1..n : nonnull[i].m # <<>>
             THEN LET f == CHOOSE i \in 1..n :
                              /\ nonnull[i].m # <<>>
                              /\ \A j \in 1..(i - 1) : nonnull[j].m = <<>>
                  IN  [type |-> "array",
                       items |-> [type |-> map_python_type_to_json(nonnull[f].m[1].val.k)]]
             ELSE [type |-> "array"]
        ELSE IF \A i \in 1..n : IsIntOrFloat(nonnull[i]) THEN [type |-> "number"]
        ELSE IF \A i \in 1..n : nonnull[i].k = "bool" THEN [type |-> "boolean"]
        ELSE IF \A i \in 1..n : nonnull[i].k = "dict" THEN [type |-> "object"]
        ELSE [type |-> "string"]

infer_field_type(vals) ==
    LET nonnull == NonNone(vals)
        n == Len(nonnull)
    IN  IF nonnull = <<>> THEN [type |-> "string"]
        ELSE IF \A i \in 1..n : nonnull[i].k = "str" /\ is_iso_date(nonnull[i].s)
        THEN [type |-> "string", format |-> "date-time"]
        ELSE IF \A i \in 1..n : nonnull[i].k = "list"
        THEN IF \E i \in 1..n : nonnull[i].m # <<>>
             THEN LET f == CHOOSE i \in 1..n :
                              /\ nonnull[i].m # <<>>
                              /\ \A j \in 1..(i - 1) : nonnull[j].m = <<>>
                      item_type == nonnull[f].m[1].val.k
                  IN  [type |-> "array",
                       items |-> [type |-> map_python_type_to_json(item_type)]]
             ELSE [type |-> "array"]
        ELSE IF \A i \in 1..n : nonnull[i].k = "bool" THEN [type |-> "boolean"]
        ELSE IF \A i \in 1..n : IsIntOrFloat(nonnull[i]) THEN [type |-> "number"]
        ELSE IF \A i \in 1..n : nonnull[i].k = "dict" THEN [type |-> "object"]
        ELSE [type |-> "string"]

\* s.title(): a letter is upper case after a character that is no letter
\* (and at the start), lower case after a letter
Title(s) ==
    [i \in 1..Len(s) |->
        IF ~IsLetter(s[i]) THEN s[i]
        ELSE IF i = 1 \/ ~IsLetter(s[i - 1])
             THEN (IF s[i] >= 97 THEN s[i] - 32 ELSE s[i])
             ELSE (IF s[i] <= 90 THEN s[i] + 32 ELSE s[i])]

\* field_name.replace("_", " ").replace("-", " ").title()
FieldTitle(field_name) ==
    Title(Replace(Replace(field_name, 95, <<32>>), 45, <<32>>))

\* a / b as a float.  A double keeps 53 significant bits; the quotient is
\* kept here to 24 binary places, rounded to nearest as the double is, so
\* that 4 / 5 and the literal 0.8 are the same float and unequal quotients
\* of counts this small stay apart.
FloatDiv(a, b) == (2 * a * (2 ^ 24) + b) \div (2 * b)

\* occurrence_rate > 0.8, with >= for >
ExceedsThresholdOrEqual(count, total_samples) ==
    FloatDiv(count, total_samples) >= FloatDiv(8, 10)

\* occurrence_rate = count / total_samples; occurrence_rate > 0.8
ExceedsThreshold(count, total_samples) ==
    FloatDiv(count, total_samples) > FloatDiv(8, 10)

RECURSIVE CollectFields_keep_internal(_, _)
\* the loop that fills all_fields without the test key.startswith("_")
CollectFields_keep_internal(all_fields, items) ==
    IF items = <<>> THEN all_fields
    ELSE LET key == Head(items).key
             value == Head(items).val
             next ==
                IF \E i \in 1..Len(all_fields) : all_fields[i].name = key
                THEN [i \in 1..Len(all_fields) |->
                        IF all_fields[i].name = key
                        THEN [name |-> key,
                              vals |-> Append(all_fields[i].vals, value)]
                        ELSE all_fields[i]]
                ELSE Append(all_fields, [name |-> key, vals |-> <<value>>])
         IN  CollectFields_keep_internal(next, Tail(items))

RECURSIVE CollectFields(_, _)
\* the loop that fills all_fields: items are the (key, value) pairs of all
\* samples in order; all_fields keeps the field names in the order first seen
CollectFields(all_fields, items) ==
    IF items = <<>> THEN all_fields
    ELSE LET key == Head(items).key
             value == Head(items).val
             next ==
                IF key # <<>> /\ key[1] = 95 THEN all_fields
                ELSE IF \E i \in 1..Len(all_fields) : all_fields[i].name = key
                THEN [i \in 1..Len(all_fields) |->
                        IF all_fields[i].name = key
                        THEN [name |-> key,
                              vals |-> Append(all_fields[i].vals, value)]
                        ELSE all_fields[i]]
                ELSE Append(all_fields, [name |-> key, vals |-> <<value>>])
         IN  CollectFields(next, Tail(items))

\* the loop of infer_schema that builds the schema from all_fields:
\* properties and required are in the order of all_fields
build_schema(all_fields, total_samples) ==
    LET field_schema(f) ==
            infer_field_type(f.vals) @@ [title |-> FieldTitle(f.name)]
    IN  [type |-> "object",
         properties |-> [i \in 1..Len(all_fields) |->
                           [name |-> all_fields[i].name,
                            schema |-> field_schema(all_fields[i])]],
         required |->
           LET req == SelectSeq(all_fields,
                         LAMBDA f : ExceedsThreshold(Len(NonNone(f.vals)),
                                                     total_samples))
           IN  [i \in 1..Len(req) |-> req[i].name]]

infer_schema(frontmatter_samples) ==
    IF frontmatter_samples = <<>>
    THEN [type |-> "object", properties |-> <<>>, required |-> <<>>]
    ELSE LET total_samples == Len(frontmatter_samples)
             all_fields ==
                CollectFields(<<>>, Concat([i \in 1..total_samples |->
                                              frontmatter_samples[i].m]))
         IN  build_schema(all_fields, total_samples)

---------------------------------------------------------------------------
(* infer_field_type and infer_schema as state machines *)

\* the values a frontmatter field takes in the samples
SampleValues ==
    { None,
      Str(<<50, 48, 50, 54, 45, 48, 49, 45, 48, 49>>),
      Str(<<50, 48, 50, 54, 45, 48, 49, 45, 48, 50, 84, 49, 50, 58, 51, 48, 58, 48, 48, 90>>),
      Str(<<104, 101, 108, 108, 111>>),
      List(<<>>),
      List(<<Str(<<97>>), IntVal(1)>>),
      List(<<IntVal(1), Str(<<97>>)>>),
      List(<<Float(15), IntVal(1)>>),
      List(<<Bool(TRUE)>>),
      List(<<Dict(<<>>)>>),
      List(<<List(<<>>)>>),
      List(<<None, IntVal(1)>>),
      Bool(TRUE),
      IntVal(3),
      Float(15),
      Dict(<<[key |-> <<107>>, val |-> Str(<<118>>)]>>),
      Date }

InitFieldType ==
    /\ MemberIdle
    /\ ApiIdle
    /\ HandlerIdle
    /\ RepoIdle
    /\ ConcIdle
    /\ InputIdle
    /\ TypeIdle
    /\ SchemaIdle
    /\ TidIdle
    /\ CidIdle

\* one more sample has a value for the field
AppendValue ==
    /\ Len(values) < MaxValues
    /\ \E v \in SampleValues : values' = Append(values, v)
    /\ fieldType' = NotInferred
    /\ UNCHANGED <<tidVars, cidVars, schemaVars, inputVars, concVars, repoVars, handlerVars, apiVars, memberVars>>

InferFieldType ==
    /\ fieldType = NotInferred
    /\ fieldType' = infer_field_type(values)
    /\ UNCHANGED <<values, tidVars, cidVars, schemaVars, inputVars, concVars, repoVars, handlerVars, apiVars, memberVars>>

NextFieldType == AppendValue \/ InferFieldType

SpecFieldType == InitFieldType /\ [][NextFieldType]_vars

AuthorKey == <<97, 117, 116, 104, 111, 114>>
DateKey == <<100, 97, 116, 101>>
FilepathKey == <<95, 102, 105, 108, 101, 112, 97, 116, 104>>

\* the frontmatter of a document, as scan_frontmatter stores it (with its
\* "_filepath") or as a caller writes it: author and date both given; author
\* null and no date; neither; both, in the other order
SampleShapes ==
    { Dict(<<[key |-> AuthorKey, val |-> Str(<<65, 108>>)],
             [key |-> DateKey, val |-> Str(<<50, 48, 50, 54, 45, 48, 49, 45, 48, 49>>)],
             [key |-> FilepathKey, val |-> Str(<<112, 46, 109, 100>>)]>>),
      Dict(<<[key |-> AuthorKey, val |-> None],
             [key |-> FilepathKey, val |-> Str(<<112, 46, 109, 100>>)]>>),
      Dict(<<[key |-> FilepathKey, val |-> Str(<<112, 46, 109, 100>>)]>>),
      Dict(<<[key |-> DateKey, val |-> Str(<<50, 48, 50, 54, 45, 48, 49, 45, 48, 50, 84, 49, 50, 58, 51, 48, 58, 48, 48, 90>>)],
             [key |-> AuthorKey, val |-> Str(<<66, 111>>)]>>) }

InitSchema ==
    /\ MemberIdle
    /\ ApiIdle
    /\ HandlerIdle
    /\ RepoIdle
    /\ ConcIdle
    /\ InputIdle
    /\ SchemaIdle
    /\ TypeIdle
    /\ TidIdle
    /\ CidIdle

\* one more document of the content type has been scanned
AppendSample ==
    /\ Len(samples) < MaxSamples
    /\ \E sample \in SampleShapes : samples' = Append(samples, sample)
    /\ schema' = NotInferred
    /\ UNCHANGED <<tidVars, cidVars, typeVars, inputVars, concVars, repoVars, handlerVars, apiVars, memberVars>>

InferSchema ==
    /\ schema = NotInferred
    /\ schema' = infer_schema(samples)
    /\ UNCHANGED <<samples, tidVars, cidVars, typeVars, inputVars, concVars, repoVars, handlerVars, apiVars, memberVars>>

NextSchema == AppendSample \/ InferSchema

SpecSchema == InitSchema /\ [][NextSchema]_vars

---------------------------------------------------------------------------
(* generate_cid and the record values its callers build, as a state machine *)

\* field names: "b" and "aa" (canonical order puts the shorter "b" first)
FieldNames == { <<98>>, <<97, 97>> }

\* {"b": 1, "aa": "x"} and the same mapping built in the other order
NestedBA == Dict(<<[key |-> <<98>>, val |-> IntVal(1)],
                   [key |-> <<97, 97>>, val |-> Str(<<120>>)]>>)
NestedAB == Dict(<<[key |-> <<97, 97>>, val |-> Str(<<120>>)],
                   [key |-> <<98>>, val |-> IntVal(1)]>>)

\* the values a field is set to
FieldValues == { IntVal(1), Str(<<120>>), NestedBA, NestedAB, Date }

\* the values a caller starts a record from: the empty dict, and values
\* that are not a mapping
RecordLiterals ==
    { Dict(<<>>), None, Bool(TRUE), IntVal(-1), IntVal(1000),
      List(<<IntVal(1), Str(<<120>>)>>) }

InitCid ==
    /\ MemberIdle
    /\ ApiIdle
    /\ HandlerIdle
    /\ RepoIdle
    /\ ConcIdle
    /\ InputIdle
    /\ dag_cbor \in {"module", "None"}
    /\ records = [c \in Callers |-> Dict(<<>>)]
    /\ cids = [c \in Callers |-> NotCalled]
    /\ TidIdle
    /\ TypeIdle
    /\ SchemaIdle

\* record = <literal>
Assign(c) ==
    /\ \E v \in RecordLiterals \ {records[c]} :
         records' = [records EXCEPT ![c] = v]
    /\ cids' = [cids EXCEPT ![c] = NotCalled]
    /\ UNCHANGED <<dag_cbor, tidVars, typeVars, schemaVars, inputVars, concVars, repoVars, handlerVars, apiVars, memberVars>>

\* record[key] = v
SetItem(c) ==
    /\ records[c].k = "dict"
    /\ \E key \in FieldNames, v \in FieldValues :
         /\ SetItemOf(records[c], key, v) # records[c]
         /\ records' = [records EXCEPT ![c] = SetItemOf(records[c], key, v)]
    /\ cids' = [cids EXCEPT ![c] = NotCalled]
    /\ UNCHANGED <<dag_cbor, tidVars, typeVars, schemaVars, inputVars, concVars, repoVars, handlerVars, apiVars, memberVars>>

\* del record[key]
DelItem(c) ==
    /\ records[c].k = "dict"
    /\ \E key \in Keys(records[c]) :
         records' = [records EXCEPT ![c] = DelItemOf(records[c], key)]
    /\ cids' = [cids EXCEPT ![c] = NotCalled]
    /\ UNCHANGED <<dag_cbor, tidVars, typeVars, schemaVars, inputVars, concVars, repoVars, handlerVars, apiVars, memberVars>>

\* generate_cid(record)
GenerateCid(c) ==
    /\ cids[c] = NotCalled
    /\ cids' = [cids EXCEPT ![c] = generate_cid(dag_cbor, records[c])]
    /\ UNCHANGED <<dag_cbor, records, tidVars, typeVars, schemaVars, inputVars, concVars, repoVars, handlerVars, apiVars, memberVars>>

NextCid ==
    \E c \in Callers : Assign(c) \/ SetItem(c) \/ DelItem(c) \/ GenerateCid(c)

SpecCid == InitCid /\ [][NextCid]_vars

---------------------------------------------------------------------------
(* src/api/dynamodb_repository.py: the AT Protocol record operations *)

RECURSIVE SplitOn(_, _)
\* s.split(sep) for a single character sep
SplitOn(s, sep) ==
    IF \A i \in 1..Len(s) : s[i] # sep
    THEN <<s>>
    ELSE LET i == CHOOSE j \in 1..Len(s) :
                    s[j] = sep /\ \A k \in 1..(j - 1) : s[k] # sep
         IN  <<SubSeq(s, 1, i - 1)>> \o SplitOn(SubSeq(s, i + 1, Len(s)), sep)

\* _validate_did: whether it raises
validate_did(did) ==
    IF did.k # "str" \/ ~StartsWith(did.s, <<100, 105, 100, 58>>)
    THEN "ValueError"
    ELSE "none"

\* _validate_uri: (user_did, collection, rkey), or the exception
validate_uri(uri) ==
    LET failed == [err |-> "ValueError", user_did |-> <<>>,
                   collection |-> <<>>, rkey |-> <<>>]
    IN  IF uri.k # "str" \/ ~StartsWith(uri.s, <<97, 116, 58, 47, 47>>)
        THEN failed
        ELSE LET parts == SplitOn(SubSeq(uri.s, 6, Len(uri.s)), 47)
             IN  IF Len(parts) # 3 THEN failed
                 ELSE IF ~StartsWith(parts[1], <<100, 105, 100, 58>>) THEN failed
                 ELSE [err |-> "none", user_did |-> parts[1],
                       collection |-> parts[2], rkey |-> parts[3]]

\* f"at://{user_did}/{collection}/{rkey}"
FormatUri(user_did, collection, rkey) ==
    <<97, 116, 58, 47, 47>> \o user_did \o <<47>> \o collection \o <<47>> \o rkey

\* the primary key: PK = f"USER#{user_did}", SK = f"RECORD#{collection}#{rkey}"
KeyOf(user_did, collection, rkey) ==
    <<<<85, 83, 69, 82, 35>> \o user_did, <<82, 69, 67, 79, 82, 68, 35>> \o collection \o <<35>> \o rkey>>

\* table.put_item(Item=item): the item replaces any item with its primary key
put_item(tbl, item) ==
    LET key == <<item.PK.s, item.SK.s>>
    IN  [k \in DOMAIN tbl \cup {key} |-> IF k = key THEN item ELSE tbl[k]]

\* table.get_item(Key=key).get("Item")
get_item(tbl, key) ==
    IF key \in DOMAIN tbl THEN tbl[key] ELSE None

\* table.update_item(Key=key, UpdateExpression="SET ..."): the attributes
\* are set on the item with that key, which is created if there is none
update_item(tbl, key, attributes) ==
    LET old == IF key \in DOMAIN tbl THEN tbl[key]
               ELSE [PK |-> Str(key[1]), SK |-> Str(key[2])]
    IN  [k \in DOMAIN tbl \cup {key} |-> IF k = key THEN attributes @@ old ELSE tbl[k]]

\* the item create_record and update_record build
RecordItem(user_did, collection, rkey, value, cid, linked_record, timestamp) ==
    [PK |-> Str(KeyOf(user_did, collection, rkey)[1]),
     SK |-> Str(KeyOf(user_did, collection, rkey)[2]),
     uri |-> Str(FormatUri(user_did, collection, rkey)),
     cid |-> cid,
     record_type |-> Str(collection),
     rkey |-> Str(rkey),
     user_did |-> Str(user_did),
     value |-> value,
     linked_record |-> linked_record,
     created_at |-> timestamp,
     indexed_at |-> timestamp,
     updated_at |-> timestamp]

\* create_record: the table after the call and the item returned, or the
\* exception; timestamp is what now_iso() returns
create_record(tbl, user_did, collection, value, cid, rkey, timestamp) ==
    IF \/ validate_did(user_did) # "none"
       \/ collection.k # "str" \/ collection.s = <<>>
       \/ value.k # "dict"
       \/ cid.k # "str" \/ cid.s = <<>>
       \/ rkey.k # "str" \/ rkey.s = <<>>
    THEN [err |-> "ValueError", table |-> tbl, item |-> None]
    ELSE LET item == RecordItem(user_did.s, collection.s, rkey.s, value, cid,
                                None, timestamp)
         IN  [err |-> "none", table |-> put_item(tbl, item), item |-> item]

\* get_record: the item, None when there is none, or the exception
get_record(tbl, uri) ==
    LET parsed == validate_uri(uri)
    IN  IF parsed.err # "none"
        THEN [err |-> parsed.err, item |-> None]
        ELSE [err |-> "none",
              item |-> get_item(tbl, KeyOf(parsed.user_did, parsed.collection,
                                           parsed.rkey))]

\* update_record: new_rkey is what its call generate_rkey() returned or
\* raised, new_cid what its call generate_cid(new_value) did, timestamp
\* what now_iso() returns
update_record(tbl, uri, new_value, new_rkey, new_cid, timestamp) ==
    LET parsed == validate_uri(uri)
        raised(err, old) == [err |-> err, table |-> tbl, item |-> None,
                             old_record |-> old]
    IN  IF parsed.err # "none" THEN raised(parsed.err, None)
        ELSE IF new_value.k # "dict" THEN raised("ValueError", None)
        ELSE LET old_record == get_record(tbl, uri).item
             IN  IF old_record = None THEN raised("ValueError", None)
                 ELSE IF new_rkey.err # "none" THEN raised(new_rkey.err, old_record)
                 ELSE IF new_cid.err # "none" THEN raised(new_cid.err, old_record)
                 ELSE LET new_record ==
                              RecordItem(parsed.user_did, parsed.collection,
                                         new_rkey.rkey, new_value,
                                         Str(new_cid.cid), uri, timestamp)
                      IN  [err |-> "none", table |-> put_item(tbl, new_record),
                           item |-> new_record, old_record |-> old_record]

\* delete_record as a hard delete: the item is removed from the table and
\* the attributes it had are returned with the deletion time
delete_record_hard(tbl, uri, timestamp) ==
    LET parsed == validate_uri(uri)
    IN  IF parsed.err # "none"
        THEN [err |-> parsed.err, table |-> tbl, item |-> None]
        ELSE IF get_record(tbl, uri).item = None
        THEN [err |-> "ValueError", table |-> tbl, item |-> None]
        ELSE LET key == KeyOf(parsed.user_did, parsed.collection, parsed.rkey)
                 after == update_item(tbl, key, [deleted_at |-> timestamp,
                                                 updated_at |-> timestamp])
             IN  [err |-> "none",
                  table |-> [k \in DOMAIN tbl \ {key} |-> tbl[k]],
                  item |-> after[key]]

\* delete_record: the table after the call and the attributes returned, or
\* the exception
delete_record(tbl, uri, timestamp) ==
    LET parsed == validate_uri(uri)
    IN  IF parsed.err # "none"
        THEN [err |-> parsed.err, table |-> tbl, item |-> None]
        ELSE IF get_record(tbl, uri).item = None
        THEN [err |-> "ValueError", table |-> tbl, item |-> None]
        ELSE LET key == KeyOf(parsed.user_did, parsed.collection, parsed.rkey)
                 after == update_item(tbl, key, [deleted_at |-> timestamp,
                                                 updated_at |-> timestamp])
             IN  [err |-> "none", table |-> after, item |-> after[key]]

---------------------------------------------------------------------------
(* The record operations as a state machine *)

UserDid == Str(<<100, 105, 100, 58, 112, 108, 99, 58, 97, 98, 99, 49, 50, 51, 120, 121, 122, 55, 56, 57>>)

Collection == Str(<<97, 112, 112, 46, 110, 98, 104, 100, 46, 98, 108, 111, 103, 46, 112, 111, 115, 116>>)

TitleKey == <<116, 105, 116, 108, 101>>

\* the record values the callers write
RepoValues ==
    { Dict(<<[key |-> TitleKey, val |-> Str(<<77, 121, 32, 70, 105, 114, 115, 116, 32, 80, 111, 115, 116>>)]>>),
      Dict(<<[key |-> TitleKey, val |-> Str(<<85, 112, 100, 97, 116, 101, 100, 32, 84, 105, 116, 108, 101>>)]>>) }

\* what the clock and the random source give the generate_rkey() calls of
\* this table's writers: two readings 10 ms apart
RepoClock == {BigOf(1583248, 404639648), BigOf(1583248, 404649648)}

RepoRandom == {682}

\* generate_rkey() by what it reads
GenerateRkeyOf == [t \in RepoClock, r \in RepoRandom |-> generate_rkey(t, r)]

\* generate_cid(value) by the state of the library and the value
GenerateCidOf ==
    [lib \in {"module", "None"}, v \in RepoValues |-> generate_cid(lib, v)]

\* what now_iso() returns; the operations store it and never read it
NowReadings ==
    { Str(<<50, 48, 50, 54, 45, 48, 49, 45, 50, 49, 84, 48, 48, 58, 48, 48, 58, 48, 48, 43, 48, 48, 58, 48, 48>>) }

\* the record keys in use
RepoRkeys == {Str(GenerateRkeyOf[t, r].rkey) : t \in RepoClock, r \in RepoRandom}

\* the URIs the callers pass: those of the record keys in use, one with an
\* empty collection and an empty rkey, "invalid-uri", and one that is no AT
\* URI
RepoUris ==
    {Str(FormatUri(UserDid.s, Collection.s, rkey.s)) : rkey \in RepoRkeys}
        \cup {Str(FormatUri(UserDid.s, <<>>, <<>>)),
              Str(<<105, 110, 118, 97, 108, 105, 100, 45, 117, 114, 105>>)}
        \cup {Str(<<104, 116, 116, 112, 115, 58, 47, 47, 100, 105, 100, 58, 112, 108, 99, 58, 97, 98, 99, 49, 50, 51, 120, 121, 122, 55, 56, 57, 47, 97, 112, 112, 46, 110, 98, 104, 100, 46, 98, 108, 111, 103, 46, 112, 111, 115, 116>>)}

\* the arguments of a create_record call: well-formed ones, with the CID of
\* the value, and the same with one argument that is not accepted
CreateArguments ==
    LET good == [user_did : {UserDid}, collection : {Collection},
                 value : RepoValues, rkey : RepoRkeys]
        bad(g) == {[g EXCEPT !.user_did = Str(<<112, 108, 99, 58, 97, 98, 99, 49, 50, 51, 120, 121, 122, 55, 56, 57>>)],
                   [g EXCEPT !.collection = Str(<<>>)],
                   [g EXCEPT !.value = Str(<<77, 121, 32, 70, 105, 114, 115, 116, 32, 80, 111, 115, 116>>)],
                   [g EXCEPT !.rkey = None]}
        withCid(a) == a @@ [cid |-> Str(generate_cid("module", a.value).cid)]
    IN  {withCid(g) : g \in good}
            \cup UNION {{withCid(b) : b \in bad(g)} : g \in good}
            \cup {g @@ [cid |-> Str(<<>>)] : g \in good}

InitRecords ==
    /\ MemberIdle
    /\ ApiIdle
    /\ HandlerIdle
    /\ table = <<>>
    /\ lastOp = NoOp
    /\ dag_cbor \in {"module", "None"}
    /\ records = [c \in Callers |-> Dict(<<>>)]
    /\ cids = [c \in Callers |-> NotCalled]
    /\ TidIdle
    /\ TypeIdle
    /\ SchemaIdle
    /\ InputIdle
    /\ ConcIdle

CreateRecord ==
    /\ \E a \in CreateArguments, timestamp \in NowReadings :
         LET res == create_record(table, a.user_did, a.collection, a.value,
                                  a.cid, a.rkey, timestamp)
         IN  /\ table' = res.table
             /\ lastOp' = [NoOp EXCEPT !.fn = "create_record",
                                       !.new_value = a.value,
                                       !.err = res.err, !.result = res.item]
    /\ UNCHANGED <<tidVars, cidVars, typeVars, schemaVars, inputVars, concVars, handlerVars, apiVars, memberVars>>

GetRecord ==
    /\ \E uri \in RepoUris :
         LET res == get_record(table, uri)
         IN  lastOp' = [NoOp EXCEPT !.fn = "get_record", !.uri = uri,
                                    !.err = res.err, !.result = res.item]
    /\ UNCHANGED <<table, tidVars, cidVars, typeVars, schemaVars, inputVars, concVars, handlerVars, apiVars, memberVars>>

UpdateRecord ==
    /\ \E uri \in RepoUris, new_value \in RepoValues \cup {None},
          timestamp_us \in RepoClock, random_bits \in RepoRandom,
          timestamp \in NowReadings :
         LET new_rkey == GenerateRkeyOf[timestamp_us, random_bits]
             new_cid == IF new_value \in RepoValues
                        THEN GenerateCidOf[dag_cbor, new_value]
                        ELSE generate_cid(dag_cbor, new_value)
             res == update_record(table, uri, new_value, new_rkey, new_cid,
                                  timestamp)
         IN  /\ table' = res.table
             /\ lastOp' = [NoOp EXCEPT !.fn = "update_record", !.uri = uri,
                                       !.new_value = new_value,
                                       !.err = res.err,
                                       !.old_record = res.old_record,
                                       !.result = res.item]
    /\ UNCHANGED <<tidVars, cidVars, typeVars, schemaVars, inputVars, concVars, handlerVars, apiVars, memberVars>>

DeleteRecord ==
    /\ \E uri \in RepoUris, timestamp \in NowReadings :
         LET res == delete_record(table, uri, timestamp)
         IN  /\ table' = res.table
             /\ lastOp' = [NoOp EXCEPT !.fn = "delete_record", !.uri = uri,
                                       !.err = res.err, !.result = res.item]
    /\ UNCHANGED <<tidVars, cidVars, typeVars, schemaVars, inputVars, concVars, handlerVars, apiVars, memberVars>>

NextRecords == CreateRecord \/ GetRecord \/ UpdateRecord \/ DeleteRecord

SpecRecords == InitRecords /\ [][NextRecords]_vars

---------------------------------------------------------------------------
(* The validators and the TID decoders on arguments of any kind *)

\* the record keys generate_rkey returns
ValidRkeys ==
    {generate_rkey(t, r).rkey : t \in {u \in ClockReadings : generate_rkey(u, 0).err = "none"},
                                r \in RandomBits}

\* the CIDs generate_cid returns for three record values
ValidCids ==
    {generate_cid("module", v).cid : v \in {Dict(<<>>), NestedBA, IntVal(1000)}}

\* a CID lengthened with "a" to 200 characters
LongCid ==
    LET cid == generate_cid("module", Dict(<<>>)).cid
    IN  cid \o [i \in 1..(200 - Len(cid)) |-> 97]

\* a well-formed identifier and what a caller may pass in its place: the
\* identifier followed by a newline, by "a", by a space or by two newlines,
\* without its last character, in upper case, with "1" for its first
\* character, with "=" for its last, with "b" for its last, and after a
\* newline
Mangled(s) ==
    { s,
      SubSeq(s, 1, Len(s) - 1) \o <<98>>,
      s \o <<10>>,
      s \o <<97>>,
      s \o <<32>>,
      s \o <<10, 10>>,
      SubSeq(s, 1, Len(s) - 1),
      Upper(s),
      <<49>> \o Tail(s),
      SubSeq(s, 1, Len(s) - 1) \o <<PadChar>>,
      <<10>> \o s }

\* the arguments of the model: strings, and values that are not strings
Arguments ==
    {Str(s) : s \in UNION {Mangled(id) : id \in ValidRkeys \cup ValidCids \cup {LongCid}}}
        \cup {Str(<<>>), Str(CidPrefix), None, Bool(TRUE), IntVal(13), Dict(<<>>)}
        \cup {List(<<Str(id)>>) : id \in ValidRkeys}

InitInput ==
    /\ MemberIdle
    /\ ApiIdle
    /\ HandlerIdle
    /\ RepoIdle
    /\ ConcIdle
    /\ InputIdle
    /\ TidIdle
    /\ CidIdle
    /\ TypeIdle
    /\ SchemaIdle

ValidateCid ==
    /\ \E a \in Arguments :
         /\ arg' = a
         /\ verdict' = [NoVerdict EXCEPT !.fn = "validate_cid",
                                         !.ok = validate_cid(a)]
    /\ UNCHANGED <<tidVars, cidVars, typeVars, schemaVars, concVars, repoVars, handlerVars, apiVars, memberVars>>

ValidateRkey ==
    /\ \E a \in Arguments :
         /\ arg' = a
         /\ verdict' = [NoVerdict EXCEPT !.fn = "validate_rkey",
                                         !.ok = validate_rkey(a)]
    /\ UNCHANGED <<tidVars, cidVars, typeVars, schemaVars, concVars, repoVars, handlerVars, apiVars, memberVars>>

DecodeTimestamp ==
    /\ \E a \in Arguments :
         LET res == extract_tid_timestamp(a)
         IN  /\ arg' = a
             /\ verdict' = [NoVerdict EXCEPT !.fn = "extract_tid_timestamp",
                                             !.err = res.err, !.ts = res.ts]
    /\ UNCHANGED <<tidVars, cidVars, typeVars, schemaVars, concVars, repoVars, handlerVars, apiVars, memberVars>>

DecodeComponents ==
    /\ \E a \in Arguments :
         LET res == extract_tid_components(a)
         IN  /\ arg' = a
             /\ verdict' = [NoVerdict EXCEPT !.fn = "extract_tid_components",
                                             !.err = res.err, !.ts = res.ts,
                                             !.rand = res.rand]
    /\ UNCHANGED <<tidVars, cidVars, typeVars, schemaVars, concVars, repoVars, handlerVars, apiVars, memberVars>>

NextInput == ValidateCid \/ ValidateRkey \/ DecodeTimestamp \/ DecodeComponents

SpecInput == InitInput /\ [][NextInput]_vars

---------------------------------------------------------------------------
(* Concurrent calls of generate_cid, infer_field_type, infer_schema and the
   TID decoders.  A thread's call is a sequence of steps, and the steps of
   different threads interleave in any order; callers in different threads
   may pass the same object. *)

\* the functions that are called concurrently
Functions ==
    {"generate_cid", "infer_field_type", "infer_schema",
     "extract_tid_timestamp", "extract_tid_components"}

\* the object a call of the function is given
ArgOf(fn) ==
    CASE fn = "generate_cid" -> "record"
      [] fn = "infer_field_type" -> "values"
      [] fn = "infer_schema" -> "samples"
      [] OTHER -> "rkey"

\* the first step of a call of the function
EntryOf(fn) ==
    CASE fn = "generate_cid" -> "check_library"
      [] fn = "infer_field_type" -> "filter"
      [] fn = "infer_schema" -> "collect"
      [] OTHER -> "decode"

\* values[:] = [v for v in values if v is not None]: the filter written
\* into the caller's list
filter_none_in_place(vals) ==
    [argument |-> NonNone(vals), nonnull |-> NonNone(vals)]

\* values = [v for v in values if v is not None]: a new list, bound to the
\* local name; the caller's list is left as it is
filter_none(vals) ==
    [argument |-> vals, nonnull |-> NonNone(vals)]

\* the objects the callers share
SharedObjects ==
    [values : {<<None, IntVal(3), None>>, <<Bool(TRUE), None, IntVal(3)>>},
     samples : {<<>>,
                <<Dict(<<[key |-> AuthorKey, val |-> None],
                         [key |-> FilepathKey, val |-> Str(<<112, 46, 109, 100>>)]>>),
                  Dict(<<[key |-> DateKey, val |-> Str(<<50, 48, 50, 54, 45, 48, 49, 45, 48, 49>>)],
                         [key |-> AuthorKey, val |-> Str(<<66, 111>>)]>>)>>},
     record : {NestedBA, Date},
     rkey : {Str(generate_rkey(BigOf(1583248, 404639648), 682).rkey), Str(<<>>)}]

InitConcurrent ==
    /\ MemberIdle
    /\ ApiIdle
    /\ HandlerIdle
    /\ RepoIdle
    /\ heap \in SharedObjects
    /\ threads = [t \in Threads |-> IdleThread]
    /\ dag_cbor \in {"module", "None"}
    /\ records = [c \in Callers |-> Dict(<<>>)]
    /\ cids = [c \in Callers |-> NotCalled]
    /\ TidIdle
    /\ TypeIdle
    /\ SchemaIdle
    /\ InputIdle

\* thread t calls one of the functions on a shared object
Call(t) ==
    /\ threads[t].pc = "idle"
    /\ \E fn \in Functions :
         threads' = [threads EXCEPT ![t] =
                        [IdleThread EXCEPT !.pc = EntryOf(fn), !.fn = fn,
                                           !.called_with = heap[ArgOf(fn)],
                                           !.i = 1]]
    /\ UNCHANGED <<heap, tidVars, cidVars, typeVars, schemaVars, inputVars, repoVars, handlerVars, apiVars, memberVars>>

\* infer_field_type, line 104
FilterNone(t) ==
    /\ threads[t].pc = "filter"
    /\ LET res == filter_none(heap.values)
       IN  /\ heap' = [heap EXCEPT !.values = res.argument]
           /\ threads' = [threads EXCEPT ![t].pc = "classify",
                                         ![t].locals = res.nonnull]
    /\ UNCHANGED <<tidVars, cidVars, typeVars, schemaVars, inputVars, repoVars, handlerVars, apiVars, memberVars>>

\* infer_field_type, lines 106 to 138, on the filtered list
Classify(t) ==
    /\ threads[t].pc = "classify"
    /\ threads' = [threads EXCEPT ![t].pc = "returned",
                                  ![t].result = infer_field_type(threads[t].locals)]
    /\ UNCHANGED <<heap, tidVars, cidVars, typeVars, schemaVars, inputVars, repoVars, handlerVars, apiVars, memberVars>>

\* infer_schema, lines 178 to 183: one turn of the loop over the samples
CollectSample(t) ==
    /\ threads[t].pc = "collect"
    /\ threads[t].i <= Len(heap.samples)
    /\ threads' = [threads EXCEPT
                      ![t].locals = CollectFields(threads[t].locals,
                                                  heap.samples[threads[t].i].m),
                      ![t].i = threads[t].i + 1]
    /\ UNCHANGED <<heap, tidVars, cidVars, typeVars, schemaVars, inputVars, repoVars, handlerVars, apiVars, memberVars>>

\* infer_schema, lines 185 to 205, after the last sample (and the return of
\* line 172 when there is none)
BuildSchema(t) ==
    /\ threads[t].pc = "collect"
    /\ threads[t].i > Len(heap.samples)
    /\ threads' = [threads EXCEPT
                      ![t].pc = "returned",
                      ![t].result = build_schema(threads[t].locals,
                                                 Len(threads[t].called_with))]
    /\ UNCHANGED <<heap, tidVars, cidVars, typeVars, schemaVars, inputVars, repoVars, handlerVars, apiVars, memberVars>>

\* generate_cid, lines 51 and 52: the read of the module global
CheckLibrary(t) ==
    /\ threads[t].pc = "check_library"
    /\ threads' = IF dag_cbor = "None"
                  THEN [threads EXCEPT ![t].pc = "returned",
                                       ![t].result = generate_cid("None", heap.record)]
                  ELSE [threads EXCEPT ![t].pc = "encode"]
    /\ UNCHANGED <<heap, tidVars, cidVars, typeVars, schemaVars, inputVars, repoVars, handlerVars, apiVars, memberVars>>

\* generate_cid, lines 56 to 82
Encode(t) ==
    /\ threads[t].pc = "encode"
    /\ threads' = [threads EXCEPT ![t].pc = "returned",
                                  ![t].result = generate_cid("module", heap.record)]
    /\ UNCHANGED <<heap, tidVars, cidVars, typeVars, schemaVars, inputVars, repoVars, handlerVars, apiVars, memberVars>>

\* extract_tid_timestamp or extract_tid_components
Decode(t) ==
    /\ threads[t].pc = "decode"
    /\ threads' = [threads EXCEPT
                      ![t].pc = "returned",
                      ![t].result = IF threads[t].fn = "extract_tid_timestamp"
                                    THEN extract_tid_timestamp(heap.rkey)
                                    ELSE extract_tid_components(heap.rkey)]
    /\ UNCHANGED <<heap, tidVars, cidVars, typeVars, schemaVars, inputVars, repoVars, handlerVars, apiVars, memberVars>>

\* the caller takes the result
Return(t) ==
    /\ threads[t].pc = "returned"
    /\ threads' = [threads EXCEPT ![t] = IdleThread]
    /\ UNCHANGED <<heap, tidVars, cidVars, typeVars, schemaVars, inputVars, repoVars, handlerVars, apiVars, memberVars>>

NextConcurrent ==
    \E t \in Threads :
        \/ Call(t)
        \/ FilterNone(t)
        \/ Classify(t)
        \/ CollectSample(t)
        \/ BuildSchema(t)
        \/ CheckLibrary(t)
        \/ Encode(t)
        \/ Decode(t)
        \/ Return(t)

SpecConcurrent == InitConcurrent /\ [][NextConcurrent]_vars

---------------------------------------------------------------------------
(* Claims about the record-key generator, checked under SpecTid *)

Returned(i) == calls[i].err = "none"

\* C1: for any two rkeys generated from timestamps t1 < t2, whatever the
\* random bits, rkey1 < rkey2 as strings: lexical order of the rkeys
\* reproduces chronological order.
C1_LexicalOrderIsChronological ==
    \A i, j \in 1..Len(calls) :
        (Returned(i) /\ Returned(j) /\ BigLess(calls[i].t, calls[j].t))
            => StrLess(calls[i].rkey, calls[j].rkey)

\* C5: for every timestamp t in [0, 2^54) and random value r in [0, 1024),
\* extract_tid_components on the rkey generated from (t, r) returns exactly
\* (t, r), extract_tid_timestamp returns exactly t, and the decoded random
\* component is in [0, 1024).
C5_DecodeInvertsEncode ==
    \A i \in 1..Len(calls) :
        (decoded.fn # "none" /\ decoded.call = i) =>
            /\ decoded.err = "none"
            /\ decoded.ts = calls[i].t
            /\ decoded.fn = "extract_tid_components" =>
                 /\ decoded.rand = calls[i].r
                 /\ decoded.rand \in 0..1023

\* the largest timestamp and the largest random value have been generated
\* into an rkey and decoded back by extract_tid_components
C5_Witness ==
    /\ decoded.fn = "extract_tid_components"
    /\ decoded.call \in 1..Len(calls)
    /\ decoded.ts = BigOf(16777215, 1073741823)
    /\ decoded.rand = 1023

\* C6: in a sequence of generate_rkey calls whose clock readings are
\* non-decreasing, the timestamps decoded from the returned rkeys are
\* non-decreasing in call order, whatever random bits were drawn.
C6_DecodedTimestampsMonotone ==
    (\A i, j \in 1..Len(calls) : i < j => BigLeq(calls[i].t, calls[j].t))
        => \A i, j \in 1..Len(calls) :
              (i < j /\ Returned(i) /\ Returned(j)) =>
                 LET di == extract_tid_timestamp(Str(calls[i].rkey))
                     dj == extract_tid_timestamp(Str(calls[j].rkey))
                 IN  /\ di.err = "none"
                     /\ dj.err = "none"
                     /\ BigLeq(di.ts, dj.ts)

\* two calls 10 ms apart, the later with the smaller random value, both
\* returned, and the later one's timestamp decoded
C6_Witness ==
    /\ Len(calls) >= 2
    /\ Returned(1) /\ Returned(2)
    /\ BigLess(calls[1].t, calls[2].t)
    /\ calls[2].r < calls[1].r
    /\ decoded.fn = "extract_tid_timestamp"
    /\ decoded.call = 2
    /\ decoded.ts = calls[2].t

\* C7: two generate_rkey calls return the same rkey string if and only if
\* they read the same microsecond timestamp and drew the same 10-bit random
\* value.
C7_CollisionIffSameInputs ==
    \A i, j \in 1..Len(calls) :
        (Returned(i) /\ Returned(j)) =>
            ((calls[i].rkey = calls[j].rkey)
                <=> (calls[i].t = calls[j].t /\ calls[i].r = calls[j].r))

\* two calls in the same microsecond that drew different random bits
\* returned different strings
C7_Witness ==
    \E i, j \in 1..Len(calls) :
        /\ i < j
        /\ Returned(i) /\ Returned(j)
        /\ calls[i].t = calls[j].t
        /\ calls[i].r # calls[j].r
        /\ calls[i].rkey # calls[j].rkey

\* C8: every string generate_rkey returns has exactly 13 characters, each in
\* [a-z2-7] (no padding, no upper case), it returns one for every timestamp
\* the 64-bit packing holds (below 2^54), and validate_rkey accepts it.
C8_RkeyFormat ==
    \A i \in 1..Len(calls) :
        /\ Len(calls[i].t) <= 54 => Returned(i)
        /\ Returned(i) =>
             /\ Len(calls[i].rkey) = 13
             /\ \A c \in 1..Len(calls[i].rkey) : IsB32Lower(calls[i].rkey[c])
             /\ validate_rkey(Str(calls[i].rkey))

\* the rkey of the last timestamp the packing holds, all random bits set,
\* was returned: "7777777777776"
C8_Witness ==
    \E i \in 1..Len(calls) :
        /\ Returned(i)
        /\ calls[i].t = BigOf(16777215, 1073741823)
        /\ calls[i].r = 1023
        /\ calls[i].rkey = <<55, 55, 55, 55, 55, 55, 55, 55, 55, 55, 55, 55, 54>>

---------------------------------------------------------------------------
(* Claims about generate_cid, checked under SpecCid *)

Called(c) == cids[c] # NotCalled

ReturnedCid(c) == cids[c].err = "none"

\* the two values are mappings with the same field names and differ in the
\* value of at least one field
DiffersInAField(x, y) ==
    /\ x.k = "dict" /\ y.k = "dict"
    /\ Keys(x) = Keys(y)
    /\ \E key \in Keys(x) : ~PyEq(GetItem(x, key), GetItem(y, key))

DigestOf(v) == sha256(dag_cbor_encode(v).bytes)

\* the digest does not collide on the two values
CollisionFree(x, y) ==
    dag_cbor_encode(x).bytes # dag_cbor_encode(y).bytes => DigestOf(x) # DigestOf(y)

\* C3: generate_cid depends only on the logical content of its argument:
\* calls on the same value, and on mappings with the same key-value pairs at
\* every nesting level but another insertion order, give the same result.
C3_CidDependsOnContentOnly ==
    \A a, b \in Callers :
        (Called(a) /\ Called(b) /\ PyEq(records[a], records[b]))
            => cids[a] = cids[b]

\* {"b": {"b": 1, "aa": "x"}, "aa": 1} and {"aa": 1, "b": {"aa": "x", "b": 1}}
\* were both given a CID, the same one
C3_Witness ==
    /\ records[1] = Dict(<<[key |-> <<98>>, val |-> NestedBA],
                           [key |-> <<97, 97>>, val |-> IntVal(1)]>>)
    /\ records[2] = Dict(<<[key |-> <<97, 97>>, val |-> IntVal(1)],
                           [key |-> <<98>>, val |-> NestedAB]>>)
    /\ ReturnedCid(1) /\ ReturnedCid(2)
    /\ cids[1].cid = cids[2].cid

\* C4: two record values that differ in at least one field value, all else
\* equal, get different CIDs provided the digest does not collide on them;
\* and rendering and prefixing never map two different digests to one CID.
C4_DifferentContentDifferentCid ==
    \A a, b \in Callers :
        (ReturnedCid(a) /\ ReturnedCid(b)) =>
            /\ (DiffersInAField(records[a], records[b])
                    /\ CollisionFree(records[a], records[b]))
                   => cids[a].cid # cids[b].cid
            /\ DigestOf(records[a]) # DigestOf(records[b])
                   => cids[a].cid # cids[b].cid

\* {"b": 1, "aa": "x"} and {"b": "x", "aa": 1}: the same field names, other
\* values, digests that differ, and two CIDs
C4_Witness ==
    /\ records[1] = NestedBA
    /\ records[2] = Dict(<<[key |-> <<98>>, val |-> Str(<<120>>)],
                           [key |-> <<97, 97>>, val |-> IntVal(1)]>>)
    /\ ReturnedCid(1) /\ ReturnedCid(2)
    /\ DigestOf(records[1]) # DigestOf(records[2])
    /\ cids[1].cid # cids[2].cid

C18_FailuresAreValueErrors ==
    \A c \in Callers :
        Called(c) =>
            /\ cids[c].err \in {"none", "ValueError"}
            /\ cids[c].err # "none" => cids[c].cid = <<>>
            /\ ~Encodable(records[c]) => cids[c].err = "ValueError"
            /\ dag_cbor = "None" => cids[c].err = "ValueError"

---------------------------------------------------------------------------
(* Claims about infer_field_type, checked under SpecFieldType *)

C11_MixedKindsGiveString ==
    fieldType # NotInferred =>
        LET left == SelectSeq(values, LAMBDA v : v # None)
            all(P(_)) == \A i \in 1..Len(left) : P(left[i])
            isDate(v) == v.k = "str" /\ is_iso_date(v.s)
            isList(v) == v.k = "list"
            isBool(v) == v.k = "bool"
            isNumber(v) == v.k \in {"int", "float"}
            isMapping(v) == v.k = "dict"
            mixed == /\ left # <<>>
                     /\ ~all(isDate) /\ ~all(isList) /\ ~all(isBool)
                     /\ ~all(isNumber) /\ ~all(isMapping)
        IN  mixed => fieldType = [type |-> "string"]

\* C12: when all values that are not None are lists, infer_field_type
\* returns type "array" whose items.type is the scalar-table entry (str ->
\* string, int -> integer, float -> number, bool -> boolean, dict -> object,
\* list -> array, any other type -> string) of the first element of the
\* first list that is not empty, whatever the later elements and the later
\* lists are; when every list is empty the result has no "items" key or
\* has items.type "string".
C12_ArrayItemsFromFirstElement ==
    fieldType # NotInferred =>
        LET left == SelectSeq(values, LAMBDA v : v # None)
            filled == SelectSeq(left, LAMBDA v : v.m # <<>>)
            scalar == ("str" :> "string") @@ ("int" :> "integer")
                        @@ ("float" :> "number") @@ ("bool" :> "boolean")
                        @@ ("dict" :> "object") @@ ("list" :> "array")
            entry(kind) == IF kind \in DOMAIN scalar THEN scalar[kind] ELSE "string"
        IN  (left # <<>> /\ \A i \in 1..Len(left) : left[i].k = "list") =>
                /\ fieldType.type = "array"
                /\ IF filled # <<>>
                   THEN fieldType = [type |-> "array",
                                     items |-> [type |-> entry(filled[1].m[1].val.k)]]
                   ELSE \/ "items" \notin DOMAIN fieldType
                        \/ fieldType.items.type = "string"

\* an empty list, then [1, "a"], then ["a", 1]: items.type is "integer",
\* from the 1 that is the first element of the first list with an element
C12_Witness ==
    /\ values = <<List(<<>>), List(<<IntVal(1), Str(<<97>>)>>),
                  List(<<Str(<<97>>), IntVal(1)>>)>>
    /\ fieldType = [type |-> "array", items |-> [type |-> "integer"]]

---------------------------------------------------------------------------
(* Claims about infer_schema, checked under SpecSchema *)

\* C2: infer_schema puts a field in "required" if and only if
\* 5 * (the number of samples that have the field with a value other than
\* None) > 4 * (the number of samples, those without the field counted).
\* The fields are the names infer_schema collects, those that do not begin
\* with "_": "_filepath" is in every scanned sample and in no schema.
C2_RequiredIffOverFourFifths ==
    schema # NotInferred =>
        LET total == Len(samples)
            names == UNION {Keys(samples[i]) : i \in 1..total}
            fields == {name \in names : ~(name # <<>> /\ name[1] = 95)}
            present(name) ==
                Cardinality({i \in 1..total :
                                /\ HasKey(samples[i], name)
                                /\ GetItem(samples[i], name) # None})
            required == {schema.required[i] : i \in DOMAIN schema.required}
        IN  \A name \in fields :
                name \in required <=> 5 * present(name) > 4 * total

\* five samples, four of them with an author and one with author: null;
\* exactly 80%, and "author" is not required
C2_Witness ==
    /\ schema # NotInferred
    /\ Len(samples) = 5
    /\ \A i \in 1..5 : HasKey(samples[i], AuthorKey)
    /\ Cardinality({i \in 1..5 : GetItem(samples[i], AuthorKey) # None}) = 4
    /\ \E i \in DOMAIN schema.properties :
            schema.properties[i].name = AuthorKey
    /\ \A i \in DOMAIN schema.required : schema.required[i] # AuthorKey

\* C13: the keys of "properties" are exactly the field names that occur in
\* at least one sample and do not begin with "_", those whose every value
\* is None included; no name beginning with "_" is in "properties" or in
\* "required"; and every name in "required" is a key of "properties".
C13_PropertiesAreThePublicFields ==
    schema # NotInferred =>
        LET names == UNION {Keys(samples[i]) : i \in 1..Len(samples)}
            internal(name) == name # <<>> /\ name[1] = 95
            properties == {schema.properties[i].name :
                              i \in DOMAIN schema.properties}
            required == {schema.required[i] : i \in DOMAIN schema.required}
        IN  /\ properties = {name \in names : ~internal(name)}
            /\ Cardinality(properties) = Len(schema.properties)
            /\ \A name \in properties \cup required : ~internal(name)
            /\ required \subseteq properties

\* {"author": null, "_filepath": "p.md"} and then a sample with an author, a
\* date and a "_filepath": the properties are author and date, in that order
C13_Witness ==
    /\ Len(samples) = 2
    /\ Keys(samples[1]) = {AuthorKey, FilepathKey}
    /\ GetItem(samples[1], AuthorKey) = None
    /\ Keys(samples[2]) = {AuthorKey, DateKey, FilepathKey}
    /\ schema # NotInferred
    /\ Len(schema.properties) = 2
    /\ schema.properties[1].name = AuthorKey
    /\ schema.properties[2].name = DateKey
    /\ schema.required = <<>>

\* C14: infer_schema of no samples is {"type": "object", "properties": {},
\* "required": []}; a field whose value is None in every sample that has it
\* has type "string" in "properties" and is not in "required".
C14_DegenerateInputsHaveDefaults ==
    schema # NotInferred =>
        /\ samples = <<>> =>
              schema = [type |-> "object", properties |-> <<>>,
                        required |-> <<>>]
        /\ \A name \in UNION {Keys(samples[i]) : i \in 1..Len(samples)} :
              (/\ ~(name # <<>> /\ name[1] = 95)
               /\ \A i \in 1..Len(samples) :
                     HasKey(samples[i], name) => GetItem(samples[i], name) = None)
              => /\ \E i \in DOMAIN schema.properties :
                        /\ schema.properties[i].name = name
                        /\ schema.properties[i].schema.type = "string"
                 /\ \A i \in DOMAIN schema.required : schema.required[i] # name

\* every sample is {"author": null, "_filepath": "p.md"}: "author" is a
\* property of type string and is not required
C14_Witness ==
    /\ samples # <<>>
    /\ \A i \in 1..Len(samples) :
          /\ HasKey(samples[i], AuthorKey)
          /\ GetItem(samples[i], AuthorKey) = None
    /\ schema # NotInferred
    /\ Len(schema.properties) = 1
    /\ schema.properties[1].name = AuthorKey
    /\ schema.properties[1].schema.type = "string"
    /\ schema.required = <<>>

---------------------------------------------------------------------------
(* Claims about the validators and the decoders, checked under SpecInput *)

\* C15: validate_cid returns true if and only if its argument is a string
\* that starts with "bafy", has only characters of [a-z2-7] after the
\* prefix and is 56 to 200 characters long; for every other argument, one
\* that is not a string included, it returns false, and it never raises.
C15_ValidateCidIff ==
    verdict.fn = "validate_cid" =>
        /\ verdict.err = "none"
        /\ verdict.ok <=>
              /\ arg.k = "str"
              /\ StartsWith(arg.s, <<98, 97, 102, 121>>)
              /\ \A i \in 5..Len(arg.s) : IsB32Lower(arg.s[i])
              /\ Len(arg.s) >= 56
              /\ Len(arg.s) <= 200

\* C16: validate_rkey returns true if and only if its argument is a string
\* of exactly 13 characters, each in [a-z2-7]; for every other argument it
\* returns false, and it never raises.
C16_ValidateRkeyIff ==
    verdict.fn = "validate_rkey" =>
        /\ verdict.err = "none"
        /\ verdict.ok <=>
              /\ arg.k = "str"
              /\ Len(arg.s) = 13
              /\ \A i \in 1..Len(arg.s) : IsB32Lower(arg.s[i])

\* C17: extract_tid_timestamp and extract_tid_components raise ValueError
\* for every malformed argument (not a string, empty, of another length
\* than 13, with a character outside [a-z2-7]), return a value for every
\* argument validate_rkey accepts, and return no value for an argument
\* validate_rkey rejects.
C17_DecodersAgreeWithValidator ==
    verdict.fn \in {"extract_tid_timestamp", "extract_tid_components"} =>
        LET malformed == \/ arg.k # "str"
                         \/ Len(arg.s) # 13
                         \/ \E i \in 1..Len(arg.s) : ~IsB32Lower(arg.s[i])
        IN  /\ malformed => verdict.err = "ValueError"
            /\ validate_rkey(arg) => verdict.err = "none"
            /\ ~validate_rkey(arg) => verdict.err # "none"

---------------------------------------------------------------------------
(* Claims about concurrent calls, checked under SpecConcurrent *)

\* C19: under any interleaving of the steps of concurrent calls of
\* generate_cid, infer_field_type, infer_schema and the TID decoders, a
\* call returns what the function returns when it runs alone on the
\* argument the call was given; and while a call is in progress or has
\* returned, the object it was given, like every object the callers share,
\* is as it was before the calls.
C19_CallsArePure ==
    /\ heap \in SharedObjects
    /\ \A t \in Threads :
          threads[t].pc # "idle" =>
              heap[ArgOf(threads[t].fn)] = threads[t].called_with
    /\ \A t \in Threads :
          threads[t].pc = "returned" =>
              LET a == threads[t].called_with
                  fn == threads[t].fn
              IN  threads[t].result =
                      CASE fn = "generate_cid" -> generate_cid(dag_cbor, a)
                        [] fn = "infer_field_type" -> infer_field_type(a)
                        [] fn = "infer_schema" -> infer_schema(a)
                        [] fn = "extract_tid_timestamp" -> extract_tid_timestamp(a)
                        [] fn = "extract_tid_components" -> extract_tid_components(a)

\* two threads called infer_field_type on the same list, which has None in
\* it; one has returned "number" while the other is between its two steps
C19_Witness ==
    /\ \E i \in 1..Len(heap.values) : heap.values[i] = None
    /\ \E t, u \in Threads :
          /\ t # u
          /\ threads[t].fn = "infer_field_type" /\ threads[t].pc = "returned"
          /\ threads[u].fn = "infer_field_type" /\ threads[u].pc = "classify"
          /\ threads[t].result = [type |-> "number"]

---------------------------------------------------------------------------
(* Claims about the record operations, checked under SpecRecords *)

\* C20: after update_record(uri, new_value) succeeds, whatever rkey the
\* generator returned, the table still holds the old record under its key
\* with its value and its cid, and it holds a new record whose uri is not
\* `uri`, whose value is new_value, whose cid is generate_cid(new_value)
\* and whose linked_record is `uri`.
C20_UpdateKeepsOldAddsNew ==
    (lastOp.fn = "update_record" /\ lastOp.err = "none") =>
        LET old == lastOp.old_record
            oldKey == <<old.PK.s, old.SK.s>>
        IN  /\ oldKey \in DOMAIN table
            /\ table[oldKey].value = old.value
            /\ table[oldKey].cid = old.cid
            /\ \E key \in DOMAIN table :
                  /\ table[key].uri # lastOp.uri
                  /\ table[key].value = lastOp.new_value
                  /\ table[key].cid = Str(generate_cid("module", lastOp.new_value).cid)
                  /\ table[key].linked_record = lastOp.uri

\* the step was a delete_record call that returned
DeleteSucceeded ==
    lastOp'.fn = "delete_record" /\ lastOp'.err = "none"

\* C21: delete_record is a soft delete.  No step of create_record,
\* update_record or delete_record removes a key from the table; and when
\* delete_record(uri) returns, the item stored for uri before the call is
\* still what get_record(uri) returns, with the value, cid and uri it had,
\* and it now carries deleted_at.
C21_DeleteIsSoft ==
    [][/\ DOMAIN table \subseteq DOMAIN table'
       /\ DeleteSucceeded =>
              LET before == get_record(table, lastOp'.uri).item
                  after == get_record(table', lastOp'.uri).item
              IN  /\ before # None
                  /\ after # None
                  /\ after.value = before.value
                  /\ after.cid = before.cid
                  /\ after.uri = before.uri
                  /\ after.uri = lastOp'.uri
                  /\ "deleted_at" \in DOMAIN after]_vars

\* a record was created, updated into a second version, and then deleted:
\* both keys are in the table and the deleted one carries deleted_at
C21_Witness ==
    /\ lastOp.fn = "delete_record" /\ lastOp.err = "none"
    /\ Cardinality(DOMAIN table) = 2
    /\ LET item == get_record(table, lastOp.uri).item
       IN  /\ item # None
           /\ "deleted_at" \in DOMAIN item
           /\ item.value \in RepoValues

\* how often the code point c occurs in s
CountOf(s, c) == Cardinality({i \in 1..Len(s) : s[i] = c})

\* uri is written at://did:.../collection/rkey: after "at://" come a DID
\* that begins "did:", a collection and an rkey, none of them empty nor
\* holding a "/", with one "/" between them
IsRecordUri(uri) ==
    /\ uri.k = "str"
    /\ StartsWith(uri.s, <<97, 116, 58, 47, 47, 100, 105, 100, 58>>)
    /\ LET rest == SubSeq(uri.s, 6, Len(uri.s))
       IN  /\ CountOf(rest, 47) = 2
           /\ \A i \in 1..(Len(rest) - 1) : ~(rest[i] = 47 /\ rest[i + 1] = 47)
           /\ rest[Len(rest)] # 47

\* the arguments create_record is to refuse
RefusedByCreate(a) ==
    \/ a.user_did.k # "str" \/ ~StartsWith(a.user_did.s, <<100, 105, 100, 58>>)
    \/ a.collection.k # "str" \/ a.collection.s = <<>>
    \/ a.cid.k # "str" \/ a.cid.s = <<>>
    \/ a.rkey.k # "str" \/ a.rkey.s = <<>>
    \/ a.value.k # "dict"

\* C22: a record operation that fails leaves the table as it was.
\* create_record raises ValueError when user_did does not begin "did:",
\* when collection, cid or rkey is empty or no string, or when value is no
\* dict; get_record, update_record and delete_record raise ValueError on a
\* uri that is not written at://did:.../collection/rkey; update_record and
\* delete_record raise ValueError when the table has no record at uri.
C22_FailedOperationsWriteNothing ==
    /\ \A a \in CreateArguments, timestamp \in NowReadings :
          LET res == create_record(table, a.user_did, a.collection, a.value,
                                   a.cid, a.rkey, timestamp)
          IN  /\ res.err # "none" => res.table = table
              /\ RefusedByCreate(a) => res.err = "ValueError"
    /\ \A uri \in RepoUris, timestamp \in NowReadings :
          LET got == get_record(table, uri)
              deleted == delete_record(table, uri, timestamp)
          IN  /\ deleted.err # "none" => deleted.table = table
              /\ ~IsRecordUri(uri) =>
                     got.err = "ValueError" /\ deleted.err = "ValueError"
              /\ (got.err = "none" /\ got.item = None) =>
                     deleted.err = "ValueError"
              /\ \A new_value \in RepoValues, timestamp_us \in RepoClock,
                    random_bits \in RepoRandom :
                    LET updated ==
                            update_record(table, uri, new_value,
                                          GenerateRkeyOf[timestamp_us, random_bits],
                                          GenerateCidOf[dag_cbor, new_value],
                                          timestamp)
                    IN  /\ updated.err # "none" => updated.table = table
                        /\ ~IsRecordUri(uri) => updated.err = "ValueError"
                        /\ (got.err = "none" /\ got.item = None) =>
                               updated.err = "ValueError"

\* C27: in (timestamp_us << 10) | random_bits the two components share no
\* bit, so both can be read back from the integer; for a timestamp below
\* 2^54 the integer has at most 64 bits and the rkey generate_rkey returns
\* is its encoding; for a timestamp of 2^54 or more generate_rkey raises
\* and returns no rkey.
C27_PackingFitsOrFails ==
    \A i \in 1..Len(calls) :
        LET timestamp_us == calls[i].t
            random_bits == Strip(NatBits(calls[i].r, 10))
            tid_int == BigOr(BigShl(timestamp_us, 10), random_bits)
        IN  /\ BigAnd(BigShl(timestamp_us, 10), random_bits) = <<>>
            /\ BigShr(tid_int, 10) = timestamp_us
            /\ BigAnd(tid_int, Strip(NatBits(1023, 10))) = random_bits
            /\ BigLess(timestamp_us, BigOf(16777216, 0)) =>
                   /\ Len(tid_int) <= 64
                   /\ calls[i].err = "none"
                   /\ base32_to_int(calls[i].rkey).int = tid_int
            /\ ~BigLess(timestamp_us, BigOf(16777216, 0)) =>
                   /\ calls[i].err = "OverflowError"
                   /\ calls[i].rkey = <<>>

\* generate_rkey returned for the clock reading 2^54 - 1 with all random
\* bits set, and raised for the reading 2^54
C27_Witness ==
    /\ \E i \in 1..Len(calls) :
          /\ calls[i].t = BigOf(16777215, 1073741823)
          /\ calls[i].r = 1023
          /\ calls[i].err = "none"
          /\ Len(calls[i].rkey) = 13
    /\ \E i \in 1..Len(calls) :
          /\ calls[i].t = BigOf(16777216, 0)
          /\ calls[i].err = "OverflowError"

\* C28: decoding is injective on the rkeys validate_rkey accepts: when
\* extract_tid_components returns (timestamp, random) for an accepted rkey,
\* encoding that pair as generate_rkey does gives the rkey back, and no
\* other accepted rkey decodes to the same pair.
C28_DecodingIsInjective ==
    (/\ verdict.fn = "extract_tid_components"
     /\ verdict.err = "none"
     /\ validate_rkey(arg)) =>
        /\ generate_rkey(verdict.ts, verdict.rand).rkey = arg.s
        /\ \A other \in Arguments :
              (validate_rkey(other) /\ other # arg) =>
                  LET res == extract_tid_components(other)
                  IN  res.err = "none" =>
                         <<res.ts, res.rand>> # <<verdict.ts, verdict.rand>>

---------------------------------------------------------------------------
(* src/lambda/template_analyzer/handler.py and clone.py: the handler as a
   state machine.  One Lambda container runs one invocation at a time; an
   invocation is cut where handler awaits.  The DynamoDB client of
   handler.py accepts every call; its items and the calls it received stand
   for what it prints. *)

\* how many invocations a container serves
MaxInvocations == 2

\* dynamodb.update_template_status(template_id, status, progress=..., error=...)
update_template_status(db, template_id, status, progress, error) ==
    LET old == IF template_id \in DOMAIN db.items THEN db.items[template_id]
               ELSE [status |-> "none", progress |-> None, error |-> None,
                     analyzed |-> FALSE]
        item == [old EXCEPT !.status = status, !.progress = progress,
                            !.error = error]
    IN  [items |-> [t \in DOMAIN db.items \cup {template_id} |->
                       IF t = template_id THEN item ELSE db.items[t]],
         log |-> Append(db.log, [fn |-> "update_template_status",
                                 template_id |-> template_id,
                                 status |-> status, progress |-> progress])]

\* dynamodb.update_template_record(template_id, update_data), where
\* update_data has "status": "ready", "analyzed_at", "github_commit_sha" and
\* "content_types"
update_template_record(db, template_id) ==
    LET old == IF template_id \in DOMAIN db.items THEN db.items[template_id]
               ELSE [status |-> "none", progress |-> None, error |-> None,
                     analyzed |-> FALSE]
        item == [old EXCEPT !.status = "ready", !.analyzed = TRUE]
    IN  [items |-> [t \in DOMAIN db.items \cup {template_id} |->
                       IF t = template_id THEN item ELSE db.items[t]],
         log |-> Append(db.log, [fn |-> "update_template_record",
                                 template_id |-> template_id,
                                 status |-> "ready", progress |-> None])]

\* cleanup_directory(path): the directory is removed if it exists
cleanup_directory(dirs, path) == dirs \ {path}

\* the template ids and the URL of the events
TemplateIds == {<<116, 101, 109, 112, 108, 97, 116, 101, 45, 117, 117, 105, 100, 45, 49, 50, 51>>, <<116, 101, 109, 112, 108, 97, 116, 101, 45, 117, 117, 105, 100, 45, 52, 53, 54>>}

GithubUrl == <<104, 116, 116, 112, 115, 58, 47, 47, 103, 105, 116, 104, 117, 98, 46, 99, 111, 109, 47, 117, 115, 101, 114, 47, 49, 49, 116, 121, 45, 98, 108, 111, 103>>

\* the events Lambda passes: event.get("template_id"), event.get("github_url")
Events ==
    LET url == Str(GithubUrl)
    IN  [template_id : {Str(id) : id \in TemplateIds}, github_url : {url}]
            \cup {[template_id |-> None, github_url |-> url],
                  [template_id |-> Str(<<>>), github_url |-> url],
                  [template_id |-> Str(CHOOSE id \in TemplateIds : TRUE),
                   github_url |-> None]}

\* what clone_repository does: (success, error) and whether os.makedirs
\* made the destination before the failure
CloneOutcomes ==
    { [success |-> TRUE, error |-> "None", made |-> TRUE],
      [success |-> FALSE, error |-> "Git clone failed", made |-> TRUE],
      [success |-> FALSE, error |-> "Template clone timed out (repo too large?)", made |-> TRUE],
      [success |-> FALSE, error |-> "Clone failed: ...", made |-> FALSE] }

\* what validate_eleventy_project does: (is_valid, error)
ValidateOutcomes ==
    { [is_valid |-> TRUE, error |-> "None"],
      [is_valid |-> FALSE, error |-> "Missing package.json"] }

\* what analyze_template does: the dict it returns, or the exception it
\* raises (AttributeError for a frontmatter key that is no str)
AnalyzeOutcomes ==
    { [raised |-> "none", status |-> "success", error |-> "None"],
      [raised |-> "none", status |-> "failed", error |-> "No content directory found"],
      [raised |-> "none", status |-> "failed", error |-> "No markdown files found"],
      [raised |-> "AttributeError", status |-> "none", error |-> "None"] }

\* the state the steps of handler work on
HandlerState(inv, db, dirs) == [invocation |-> inv, dynamodb |-> db, tmpdirs |-> dirs]

\* the call: lines 98-108.  uuid.uuid4() names a directory never named before
handler_call(st, event) ==
    LET n == st.invocation.n + 1
        called == [NoInvocation EXCEPT !.n = n,
                                       !.template_id = event.template_id,
                                       !.github_url = event.github_url]
        db == [st.dynamodb EXCEPT !.log = <<>>]
    IN  IF event.template_id \in {None, Str(<<>>)} \/ event.github_url \in {None, Str(<<>>)}
        THEN HandlerState([called EXCEPT !.pc = "returned",
                                         !.result = [status |-> "failed",
                                                     error |-> "Missing template_id or github_url"]],
                          db, st.tmpdirs)
        ELSE HandlerState([called EXCEPT !.pc = "try", !.build_dir = n],
                          db, st.tmpdirs)

\* lines 112-117
handler_start(st) ==
    LET inv == st.invocation
    IN  HandlerState([inv EXCEPT !.pc = "clone"],
                     update_template_status(st.dynamodb, inv.template_id.s,
                                            "analyzing", Float(1), None),
                     st.tmpdirs)

\* lines 121-131
handler_clone(st, outcome) ==
    LET inv == st.invocation
        dirs == IF outcome.made THEN st.tmpdirs \cup {inv.build_dir}
                ELSE st.tmpdirs
    IN  IF ~outcome.success
        THEN HandlerState([inv EXCEPT !.pc = "finally",
                                      !.result = [status |-> "failed",
                                                  error |-> outcome.error]],
                          update_template_status(st.dynamodb, inv.template_id.s,
                                                 "failed", None, outcome.error),
                          dirs)
        ELSE HandlerState([inv EXCEPT !.pc = "validate",
                                      !.succeeded = @ \cup {"clone"}],
                          update_template_status(st.dynamodb, inv.template_id.s,
                                                 "analyzing", Float(3), None),
                          dirs)

\* lines 134-144
handler_validate(st, outcome) ==
    LET inv == st.invocation
    IN  IF ~outcome.is_valid
        THEN HandlerState([inv EXCEPT !.pc = "finally",
                                      !.result = [status |-> "failed",
                                                  error |-> outcome.error]],
                          update_template_status(st.dynamodb, inv.template_id.s,
                                                 "failed", None, outcome.error),
                          st.tmpdirs)
        ELSE HandlerState([inv EXCEPT !.pc = "validate_done",
                                      !.succeeded = @ \cup {"validate"}],
                          update_template_status(st.dynamodb, inv.template_id.s,
                                                 "analyzing", Float(5), None),
                          st.tmpdirs)

\* handler's analysis step with no except clause: the exception leaves
\* handler, through the finally clause
handler_analyze_uncaught(st, outcome) ==
    LET inv == st.invocation
    IN  IF outcome.raised # "none"
        THEN HandlerState([inv EXCEPT !.pc = "finally",
                                      !.result = [status |-> "raised",
                                                  error |-> outcome.raised]],
                          st.dynamodb, st.tmpdirs)
        ELSE IF outcome.error # "None"
        THEN HandlerState([inv EXCEPT !.pc = "finally",
                                      !.result = [status |-> outcome.status,
                                                  error |-> outcome.error]],
                          update_template_status(st.dynamodb, inv.template_id.s,
                                                 "failed", None, outcome.error),
                          st.tmpdirs)
        ELSE HandlerState([inv EXCEPT !.pc = "store",
                                      !.succeeded = @ \cup {"analyze"}],
                          update_template_status(st.dynamodb, inv.template_id.s,
                                                 "analyzing", Float(8), None),
                          st.tmpdirs)

\* handler's analysis step that goes on after a result with an error
handler_analyze_no_return(st, outcome) ==
    LET inv == st.invocation
        failed == update_template_status(st.dynamodb, inv.template_id.s,
                                         "failed", None, outcome.error)
    IN  IF outcome.raised # "none"
        THEN HandlerState([inv EXCEPT !.pc = "finally",
                                      !.result = [status |-> "failed",
                                                  error |-> "Analysis failed: ..."]],
                          update_template_status(st.dynamodb, inv.template_id.s,
                                                 "failed", None, "Analysis failed: ..."),
                          st.tmpdirs)
        ELSE HandlerState([inv EXCEPT !.pc = "store",
                                      !.succeeded = @ \cup {"analyze"}],
                          update_template_status(
                              IF outcome.error # "None" THEN failed ELSE st.dynamodb,
                              inv.template_id.s, "analyzing", Float(8), None),
                          st.tmpdirs)

\* lines 147-161, and lines 191-204 when analyze_template raises
handler_analyze(st, outcome) ==
    LET inv == st.invocation
    IN  IF outcome.raised # "none"
        THEN HandlerState([inv EXCEPT !.pc = "finally",
                                      !.result = [status |-> "failed",
                                                  error |-> "Analysis failed: ..."]],
                          update_template_status(st.dynamodb, inv.template_id.s,
                                                 "failed", None, "Analysis failed: ..."),
                          st.tmpdirs)
        ELSE IF outcome.error # "None"
        THEN HandlerState([inv EXCEPT !.pc = "finally",
                                      !.result = [status |-> outcome.status,
                                                  error |-> outcome.error]],
                          update_template_status(st.dynamodb, inv.template_id.s,
                                                 "failed", None, outcome.error),
                          st.tmpdirs)
        ELSE HandlerState([inv EXCEPT !.pc = "store",
                                      !.succeeded = @ \cup {"analyze"}],
                          update_template_status(st.dynamodb, inv.template_id.s,
                                                 "analyzing", Float(8), None),
                          st.tmpdirs)

\* lines 164-174
handler_store(st) ==
    LET inv == st.invocation
    IN  HandlerState([inv EXCEPT !.pc = "ready"],
                     update_template_record(st.dynamodb, inv.template_id.s),
                     st.tmpdirs)

\* lines 176-189
handler_ready(st) ==
    LET inv == st.invocation
    IN  HandlerState([inv EXCEPT !.pc = "finally",
                                 !.result = [status |-> "success",
                                             error |-> "None"]],
                     update_template_status(st.dynamodb, inv.template_id.s,
                                            "ready", Float(10), None),
                     st.tmpdirs)

\* lines 206-209, and the return
handler_finally(st) ==
    HandlerState([st.invocation EXCEPT !.pc = "returned"], st.dynamodb,
                 cleanup_directory(st.tmpdirs, st.invocation.build_dir))

Here == HandlerState(invocation, dynamodb, tmpdirs)

Becomes(st) ==
    /\ invocation' = st.invocation
    /\ dynamodb' = st.dynamodb
    /\ tmpdirs' = st.tmpdirs
    /\ UNCHANGED <<tidVars, cidVars, typeVars, schemaVars, inputVars, concVars, repoVars, apiVars, memberVars>>

InitHandler ==
    /\ MemberIdle
    /\ ApiIdle
    /\ HandlerIdle
    /\ RepoIdle
    /\ ConcIdle
    /\ InputIdle
    /\ TidIdle
    /\ CidIdle
    /\ TypeIdle
    /\ SchemaIdle

Invoke ==
    /\ invocation.pc \in {"idle", "returned"}
    /\ invocation.n < MaxInvocations
    /\ \E event \in Events : Becomes(handler_call(Here, event))

Start ==
    /\ invocation.pc = "try"
    /\ Becomes(handler_start(Here))

Clone ==
    /\ invocation.pc = "clone"
    /\ \E outcome \in CloneOutcomes : Becomes(handler_clone(Here, outcome))

Validate ==
    /\ invocation.pc = "validate"
    /\ \E outcome \in ValidateOutcomes : Becomes(handler_validate(Here, outcome))

Analyze ==
    /\ invocation.pc = "validate_done"
    /\ \E outcome \in AnalyzeOutcomes : Becomes(handler_analyze(Here, outcome))

Store ==
    /\ invocation.pc = "store"
    /\ Becomes(handler_store(Here))

Ready ==
    /\ invocation.pc = "ready"
    /\ Becomes(handler_ready(Here))

Finally ==
    /\ invocation.pc = "finally"
    /\ Becomes(handler_finally(Here))

\* the steps of an invocation in progress
Run == Start \/ Clone \/ Validate \/ Analyze \/ Store \/ Ready \/ Finally

NextHandler == Invoke \/ Run

SpecHandler == InitHandler /\ [][NextHandler]_vars

\* the event loop runs the invocation as long as it has a step to take
LiveHandler == SpecHandler /\ WF_vars(Run)

---------------------------------------------------------------------------
(* Claims about the template-analysis handler *)

\* the invocation received both template_id and github_url
BothReceived ==
    /\ invocation.pc # "idle"
    /\ invocation.template_id \notin {None, Str(<<>>)}
    /\ invocation.github_url \notin {None, Str(<<>>)}

\* the calls of update_template_status in this invocation, in call order
StatusUpdates ==
    SelectSeq(dynamodb.log, LAMBDA c : c.fn = "update_template_status")

C24_StatusProtocol ==
    LET log == dynamodb.log
        reported == SelectSeq(StatusUpdates, LAMBDA c : c.progress # None)
        steps == <<Float(1), Float(3), Float(5), Float(8), Float(10)>>
    IN  /\ Len(log) > 0 =>
              /\ log[1].fn = "update_template_status"
              /\ log[1].status = "analyzing"
        /\ Len(reported) <= Len(steps)
        /\ \A i \in 1..Len(reported) : reported[i].progress = steps[i]
        /\ \A i, j \in 1..Len(reported) :
              i < j => reported[i].progress.n < reported[j].progress.n
        /\ \A i \in 1..Len(log) :
              /\ log[i].status = "ready" =>
                    invocation.succeeded = {"clone", "validate", "analyze"}
              /\ (log[i].fn = "update_template_status"
                    /\ log[i].status \in {"ready", "failed"}) => i = Len(log)
              /\ (log[i].fn = "update_template_record" /\ i < Len(log)) =>
                    /\ i + 1 = Len(log)
                    /\ log[i + 1].fn = "update_template_status"
                    /\ log[i + 1].status = "ready"

\* an invocation has returned "success" after five status updates and one
\* record update
C24_Witness ==
    /\ invocation.pc = "returned"
    /\ invocation.result.status = "success"
    /\ Len(StatusUpdates) = 5
    /\ Len(dynamodb.log) = 6
    /\ StatusUpdates[5].progress = Float(10)

---------------------------------------------------------------------------
(* src/api/templates.py: the registry of custom templates *)

\* how many custom templates the registry may hold
MaxCustomTemplates == 2

\* not s.strip(): s is empty or all blanks
IsBlank(s) == \A i \in 1..Len(s) : s[i] \in {32, 9, 10, 13}

\* the index of the first c in s, 0 when there is none
Find(s, c) ==
    IF \A i \in 1..Len(s) : s[i] # c THEN 0
    ELSE CHOOSE i \in 1..Len(s) : s[i] = c /\ \A j \in 1..(i - 1) : s[j] # c

EndsWith(s, suffix) ==
    /\ Len(s) >= Len(suffix)
    /\ SubSeq(s, Len(s) - Len(suffix) + 1, Len(s)) = suffix

\* urlparse(url), for a url with no query, fragment or parameters: the
\* scheme is what stands before the first ":" when that is a letter followed
\* by letters, digits, "+", "-" or ".", in lower case; the netloc is what
\* follows "//" up to the next "/"
urlparse(url) ==
    LET colon == Find(url, 58)
        IsSchemeChar(c) == IsLetter(c) \/ IsDigit(c) \/ c \in {43, 45, 46}
        hasScheme == /\ colon > 1
                     /\ IsLetter(url[1])
                     /\ \A i \in 1..(colon - 1) : IsSchemeChar(url[i])
        scheme == IF hasScheme THEN Lower(SubSeq(url, 1, colon - 1)) ELSE <<>>
        rest == IF hasScheme THEN SubSeq(url, colon + 1, Len(url)) ELSE url
        hasNetloc == StartsWith(rest, <<47, 47>>)
        after == IF hasNetloc THEN SubSeq(rest, 3, Len(rest)) ELSE rest
        slash == Find(after, 47)
        netloc == IF ~hasNetloc THEN <<>>
                  ELSE IF slash = 0 THEN after
                  ELSE SubSeq(after, 1, slash - 1)
        path == IF ~hasNetloc THEN rest
                ELSE IF slash = 0 THEN <<>>
                ELSE SubSeq(after, slash, Len(after))
    IN  [scheme |-> scheme, netloc |-> netloc, path |-> path]

\* re.match(r"git@([^:]+):(.+?)(?:\.git)?$", url), for a url of one line:
\* the groups (domain, path), or no match
MatchGitAt(url) ==
    LET body == SubSeq(url, 5, Len(url))
        colon == Find(body, 58)
        tail == SubSeq(body, colon + 1, Len(body))
        dotGit == <<46, 103, 105, 116>>
    IN  IF ~StartsWith(url, <<103, 105, 116, 64>>) \/ colon < 2 \/ Len(tail) = 0
        THEN [matched |-> FALSE, domain |-> <<>>, path |-> <<>>]
        ELSE [matched |-> TRUE,
              domain |-> SubSeq(body, 1, colon - 1),
              path |-> IF EndsWith(tail, dotGit) /\ Len(tail) > Len(dotGit)
                       THEN SubSeq(tail, 1, Len(tail) - Len(dotGit))
                       ELSE tail]

\* allowed_domains
AllowedDomains == {<<103, 105, 116, 104, 117, 98, 46, 99, 111, 109>>, <<103, 105, 116, 108, 97, 98, 46, 99, 111, 109>>, <<98, 105, 116, 98, 117, 99, 107, 101, 116, 46, 111, 114, 103>>}

\* validate_github_url: (is_valid, error_message)
validate_github_url(url) ==
    LET git == MatchGitAt(url)
        normalized_url == IF StartsWith(url, <<103, 105, 116, 64>>)
                          THEN <<104, 116, 116, 112, 115, 58, 47, 47>> \o git.domain \o <<47>> \o git.path
                          ELSE url
        parsed == urlparse(normalized_url)
        domain == Lower(parsed.netloc)
        path_parts == SelectSeq(SplitOn(parsed.path, 47), LAMBDA p : p # <<>>)
        no(error) == [is_valid |-> FALSE, error |-> error]
    IN  IF url = <<>> THEN no("GitHub URL is required")
        ELSE IF StartsWith(url, <<103, 105, 116, 64>>) /\ ~git.matched
        THEN no("Invalid git@ URL format")
        ELSE IF parsed.scheme \notin {<<104, 116, 116, 112, 115>>, <<104, 116, 116, 112>>}
        THEN no("URL must use https:// or http://")
        ELSE IF parsed.scheme = <<104, 116, 116, 112>> THEN no("URL must use https://")
        ELSE IF domain \notin AllowedDomains
        THEN IF StartsWith(domain, <<108, 111, 99, 97, 108, 104, 111, 115, 116>>) \/ StartsWith(domain, <<49, 50, 55, 46>>)
             THEN no("Localhost URLs are not allowed")
             ELSE IF StartsWith(domain, <<49, 57, 50, 46, 49, 54, 56, 46>>) \/ StartsWith(domain, <<49, 48, 46>>)
             THEN no("Internal IP addresses are not allowed")
             ELSE no("Domain must be one of: github.com, gitlab.com, bitbucket.org")
        ELSE IF Len(path_parts) < 2
        THEN no("URL must include user/repository (e.g., github.com/user/repo)")
        ELSE [is_valid |-> TRUE, error |-> "None"]

\* datetime.utcnow().isoformat() + "Z"; stored and never read
UtcNow == Str(<<50, 48, 50, 54, 45, 48, 49, 45, 50, 49, 84, 48, 48, 58, 48, 48, 58, 48, 48, 90>>)

\* the stored template that has the github_url, None when there is none;
\* the loop of lines 385-386 returns at the first it finds
StoredWithUrl(store, github_url) ==
    LET found == {id \in DOMAIN store : store[id].github_url = github_url}
    IN  IF found = {} THEN None ELSE IntVal(CHOOSE id \in found : TRUE)

\* register_custom_template without the look-up of lines 385-398
register_custom_template_no_lookup(store, template, template_id) ==
    LET refused(detail) == [status_code |-> 422, data |-> Str(<<>>),
                            detail |-> detail, store |-> store]
        checked == validate_github_url(template.github_url.s)
    IN  IF IsBlank(template.name.s) THEN refused("Template name is required")
        ELSE IF IsBlank(template.github_url.s) THEN refused("GitHub URL is required")
        ELSE IF ~checked.is_valid THEN refused(checked.error)
        ELSE LET entry == [template_id |-> template_id,
                           name |-> template.name,
                           github_url |-> template.github_url,
                           is_public |-> template.is_public,
                           status |-> "analyzing",
                           created_at |-> UtcNow,
                           owner_did |-> None,
                           is_custom |-> TRUE]
             IN  [status_code |-> 202,
                  data |-> [template_id |-> template_id, status |-> "analyzing",
                            message |-> "Template analysis started"],
                  detail |-> "None",
                  store |-> [id \in DOMAIN store \cup {template_id} |->
                                IF id = template_id THEN entry ELSE store[id]]]

\* register_custom_template: the status code, the data or the detail of the
\* answer, and CUSTOM_TEMPLATES after the call; template_id is what
\* uuid.uuid4() gives
register_custom_template(store, template, template_id) ==
    LET refused(detail) == [status_code |-> 422, data |-> Str(<<>>),
                            detail |-> detail, store |-> store]
        checked == validate_github_url(template.github_url.s)
        stored == StoredWithUrl(store, template.github_url)
    IN  IF IsBlank(template.name.s) THEN refused("Template name is required")
        ELSE IF IsBlank(template.github_url.s) THEN refused("GitHub URL is required")
        ELSE IF ~checked.is_valid THEN refused(checked.error)
        ELSE IF stored # None
        THEN [status_code |-> 202,
              data |-> [template_id |-> stored.n,
                        status |-> store[stored.n].status,
                        message |-> "Template already registered"],
              detail |-> "None",
              store |-> store]
        ELSE LET entry == [template_id |-> template_id,
                           name |-> template.name,
                           github_url |-> template.github_url,
                           is_public |-> template.is_public,
                           status |-> "analyzing",
                           created_at |-> UtcNow,
                           owner_did |-> None,
                           is_custom |-> TRUE]
             IN  [status_code |-> 202,
                  data |-> [template_id |-> template_id, status |-> "analyzing",
                            message |-> "Template analysis started"],
                  detail |-> "None",
                  store |-> [id \in DOMAIN store \cup {template_id} |->
                                IF id = template_id THEN entry ELSE store[id]]]

\* get_custom_template_status: the status code and the data
get_custom_template_status(store, template_id) ==
    IF template_id \notin DOMAIN store
    THEN [status_code |-> 404, data |-> Str(<<>>)]
    ELSE [status_code |-> 200,
          data |-> [template_id |-> template_id,
                    status |-> store[template_id].status]]

\* the values uuid.uuid4() gives the registry
TemplateUuids == 1..(MaxCustomTemplates + 1)

\* the URLs clients register
GithubUrls ==
    { <<104, 116, 116, 112, 115, 58, 47, 47, 103, 105, 116, 104, 117, 98, 46, 99, 111, 109, 47, 117, 115, 101, 114, 47, 117, 110, 105, 113, 117, 101, 45, 114, 101, 112, 111>>,
      <<104, 116, 116, 112, 115, 58, 47, 47, 103, 105, 116, 104, 117, 98, 46, 99, 111, 109, 47, 117, 115, 101, 114, 47, 117, 110, 105, 113, 117, 101, 45, 114, 101, 112, 111, 47>>,
      <<103, 105, 116, 64, 103, 105, 116, 104, 117, 98, 46, 99, 111, 109, 58, 117, 115, 101, 114, 47, 117, 110, 105, 113, 117, 101, 45, 114, 101, 112, 111, 46, 103, 105, 116>>,
      <<104, 116, 116, 112, 115, 58, 47, 47, 71, 105, 116, 76, 97, 98, 46, 99, 111, 109, 47, 117, 115, 101, 114, 47, 114, 101, 112, 111>>,
      <<104, 116, 116, 112, 58, 47, 47, 103, 105, 116, 104, 117, 98, 46, 99, 111, 109, 47, 117, 115, 101, 114, 47, 114, 101, 112, 111>>,
      <<104, 116, 116, 112, 115, 58, 47, 47, 108, 111, 99, 97, 108, 104, 111, 115, 116, 47, 117, 115, 101, 114, 47, 114, 101, 112, 111>>,
      <<104, 116, 116, 112, 115, 58, 47, 47, 103, 105, 116, 104, 117, 98, 46, 99, 111, 109, 47, 117, 115, 101, 114>>,
      <<103, 105, 116, 104, 117, 98, 46, 99, 111, 109, 47, 117, 115, 101, 114, 47, 114, 101, 112, 111>>,
      <<104, 116, 116, 112, 115, 58, 47, 47, 103, 105, 116, 104, 117, 98, 46, 99, 111, 109, 46, 101, 118, 105, 108, 46, 101, 120, 97, 109, 112, 108, 101, 47, 117, 115, 101, 114, 47, 114, 101, 112, 111>>,
      <<103, 105, 116, 64, 103, 105, 116, 104, 117, 98, 46, 99, 111, 109>>,
      <<>>,
      <<32, 32>> }

TemplateNames == {<<70, 105, 114, 115, 116, 32, 82, 101, 103, 105, 115, 116, 114, 97, 116, 105, 111, 110>>, <<>>, <<32, 32>>}

\* the bodies of POST /api/templates/custom
CustomTemplateCreate ==
    [name : {Str(n) : n \in TemplateNames},
     github_url : {Str(u) : u \in GithubUrls},
     is_public : {FALSE}]
        \cup [name : {Str(<<70, 105, 114, 115, 116, 32, 82, 101, 103, 105, 115, 116, 114, 97, 116, 105, 111, 110>>)},
              github_url : {Str(<<104, 116, 116, 112, 115, 58, 47, 47, 103, 105, 116, 104, 117, 98, 46, 99, 111, 109, 47, 117, 115, 101, 114, 47, 117, 110, 105, 113, 117, 101, 45, 114, 101, 112, 111>>)},
              is_public : {TRUE}]

InitTemplates ==
    /\ MemberIdle
    /\ ApiIdle
    /\ HandlerIdle
    /\ RepoIdle
    /\ ConcIdle
    /\ InputIdle
    /\ TidIdle
    /\ CidIdle
    /\ TypeIdle
    /\ SchemaIdle

RegisterCustomTemplate ==
    /\ \E template \in CustomTemplateCreate,
          template_id \in TemplateUuids \ DOMAIN CUSTOM_TEMPLATES :
         LET res == register_custom_template(CUSTOM_TEMPLATES, template, template_id)
         IN  /\ Cardinality(DOMAIN res.store) <= MaxCustomTemplates
             /\ CUSTOM_TEMPLATES' = res.store
             /\ response' = [request |-> [fn |-> "register_custom_template",
                                          template |-> template],
                             status_code |-> res.status_code,
                             data |-> res.data]
    /\ UNCHANGED <<SITES_STORE, tidVars, cidVars, typeVars, schemaVars, inputVars, concVars, repoVars, handlerVars, memberVars>>

GetCustomTemplateStatus ==
    /\ \E template_id \in TemplateUuids :
         LET res == get_custom_template_status(CUSTOM_TEMPLATES, template_id)
         IN  response' = [request |-> [fn |-> "get_custom_template_status",
                                       template_id |-> template_id],
                          status_code |-> res.status_code,
                          data |-> res.data]
    /\ UNCHANGED <<SITES_STORE, CUSTOM_TEMPLATES, tidVars, cidVars, typeVars, schemaVars, inputVars, concVars, repoVars, handlerVars, memberVars>>

NextTemplates == RegisterCustomTemplate \/ GetCustomTemplateStatus

SpecTemplates == InitTemplates /\ [][NextTemplates]_vars

---------------------------------------------------------------------------
(* Claims about the registry of custom templates, checked under
   SpecTemplates *)

\* the step served a register_custom_template request
Registered == response'.request.fn = "register_custom_template"

\* C26: no two entries of CUSTOM_TEMPLATES have the same github_url.  A
\* register_custom_template call, with a name, for a github_url that is
\* stored answers with the template_id and the status of the stored entry
\* and leaves CUSTOM_TEMPLATES as it was; a call that is refused (blank name, blank,
\* invalid or disallowed URL) leaves it as it was; and no call removes or
\* changes an entry.
C26_OneEntryPerGithubUrl ==
    /\ [](\A a, b \in DOMAIN CUSTOM_TEMPLATES :
             a # b => CUSTOM_TEMPLATES[a].github_url # CUSTOM_TEMPLATES[b].github_url)
    /\ [][/\ \A id \in DOMAIN CUSTOM_TEMPLATES :
                /\ id \in DOMAIN CUSTOM_TEMPLATES'
                /\ CUSTOM_TEMPLATES'[id] = CUSTOM_TEMPLATES[id]
          /\ Registered =>
                LET template == response'.request.template
                    stored == {id \in DOMAIN CUSTOM_TEMPLATES :
                                  CUSTOM_TEMPLATES[id].github_url = template.github_url}
                IN  /\ stored # {} => CUSTOM_TEMPLATES' = CUSTOM_TEMPLATES
                    /\ (stored # {} /\ ~IsBlank(template.name.s)) =>
                          /\ response'.status_code = 202
                          /\ response'.data.template_id \in stored
                          /\ response'.data.status =
                                 CUSTOM_TEMPLATES[response'.data.template_id].status
                    /\ response'.status_code # 202 =>
                          CUSTOM_TEMPLATES' = CUSTOM_TEMPLATES
                    /\ (\/ IsBlank(template.name.s)
                        \/ IsBlank(template.github_url.s)
                        \/ ~validate_github_url(template.github_url.s).is_valid) =>
                          /\ response'.status_code = 422
                          /\ CUSTOM_TEMPLATES' = CUSTOM_TEMPLATES]_vars

\* two templates are stored and the last request registered the URL of one
\* of them again, under another name's visibility, and got its template_id
C26_Witness ==
    /\ Cardinality(DOMAIN CUSTOM_TEMPLATES) = 2
    /\ response.request.fn = "register_custom_template"
    /\ response.status_code = 202
    /\ response.data.message = "Template already registered"
    /\ response.data.template_id \in DOMAIN CUSTOM_TEMPLATES
    /\ CUSTOM_TEMPLATES[response.data.template_id].github_url =
           response.request.template.github_url
    /\ CUSTOM_TEMPLATES[response.data.template_id].is_public #
           response.request.template.is_public

---------------------------------------------------------------------------
(* src/api/sites.py: the sites API.  SITES_STORE is a dict, which keeps its
   items in insertion order: the sequence of its values, each with its key
   in site_id.  No site endpoint awaits before its last access of
   SITES_STORE, so each request runs alone. *)

\* how many sites SITES_STORE may hold
MaxSites == 2

\* the "blog" entry of TEMPLATES in templates.py: its id and its schema
TEMPLATES ==
    <<[id |-> <<98, 108, 111, 103>>,
       schema |-> [required |-> <<<<115, 105, 116, 101, 95, 116, 105, 116, 108, 101>>, <<97, 117, 116, 104, 111, 114>>>>,
                   properties |-> <<[key |-> <<115, 105, 116, 101, 95, 116, 105, 116, 108, 101>>, type |-> "string", pattern |-> "none"],
                                    [key |-> <<97, 117, 116, 104, 111, 114>>, type |-> "string", pattern |-> "none"],
                                    [key |-> <<100, 101, 115, 99, 114, 105, 112, 116, 105, 111, 110>>, type |-> "string", pattern |-> "none"],
                                    [key |-> <<97, 99, 99, 101, 110, 116, 95, 99, 111, 108, 111, 114>>, type |-> "string", pattern |-> "^#[0-9A-Fa-f]{6}$"]>>]]>>

\* the schema of no template: {}
NoSchema == [required |-> <<>>, properties |-> <<>>]

\* get_template_by_id: the template, or None
get_template_by_id(template_id) ==
    LET found == {i \in 1..Len(TEMPLATES) : TEMPLATES[i].id = template_id}
    IN  IF found = {} THEN None ELSE TEMPLATES[CHOOSE i \in found : TRUE]

\* _get_template_schema: the schema, {} when there is no such template
get_template_schema(template_id) ==
    LET template == get_template_by_id(template_id)
    IN  IF template = None THEN NoSchema ELSE template.schema

\* re.match(pattern, s) for the pattern of accent_color: "#" and six
\* hexadecimal digits, then the end or a last newline
MatchesPattern(pattern, s) ==
    /\ pattern = "^#[0-9A-Fa-f]{6}$"
    /\ Len(s) \in {7, 8}
    /\ s[1] = 35
    /\ \A i \in 2..7 : IsDigit(s[i]) \/ s[i] \in 65..70 \/ s[i] \in 97..102
    /\ Len(s) = 8 => s[8] = 10

\* isinstance(value, type_map[expected_type])
IsInstanceOfJsonType(value, expected_type) ==
    CASE expected_type = "string" -> value.k = "str"
      [] expected_type = "number" -> value.k \in {"int", "float", "bool"}
      [] expected_type = "integer" -> value.k \in {"int", "bool"}
      [] expected_type = "boolean" -> value.k = "bool"
      [] expected_type = "array" -> value.k = "list"
      [] expected_type = "object" -> value.k = "dict"
      [] OTHER -> TRUE

\* _validate_config_against_schema: (is_valid, error), the error without
\* the name of the field
validate_config_against_schema(config, template_schema) ==
    LET missing == \E i \in 1..Len(template_schema.required) :
                       ~HasKey(config, template_schema.required[i])
        PropertyOf(field) ==
            LET found == {i \in 1..Len(template_schema.properties) :
                             template_schema.properties[i].key = field}
            IN  IF found = {} THEN None
                ELSE template_schema.properties[CHOOSE i \in found : TRUE]
        \* what the loop body of lines 41-64 finds for one item of config
        Fault(item) ==
            LET prop_schema == PropertyOf(item.key)
            IN  IF prop_schema = None THEN "None"
                ELSE IF ~IsInstanceOfJsonType(item.val, prop_schema.type)
                THEN "Field must be of type"
                ELSE IF /\ prop_schema.type = "string"
                        /\ prop_schema.pattern # "none"
                        /\ ~MatchesPattern(prop_schema.pattern, item.val.s)
                THEN "Field does not match pattern"
                ELSE "None"
        faulty == {i \in 1..Len(config.m) : Fault(config.m[i]) # "None"}
    IN  IF template_schema = NoSchema THEN [is_valid |-> TRUE, error |-> "None"]
        ELSE IF missing THEN [is_valid |-> FALSE, error |-> "Missing required field"]
        ELSE IF faulty # {}
        THEN [is_valid |-> FALSE,
              error |-> Fault(config.m[CHOOSE i \in faulty : \A j \in faulty : i <= j])]
        ELSE [is_valid |-> TRUE, error |-> "None"]

\* site_id in SITES_STORE: the place of the site in the store, 0 when it is
\* not there
SiteIndex(store, site_id) ==
    IF \A i \in 1..Len(store) : store[i].site_id # site_id THEN 0
    ELSE CHOOSE i \in 1..Len(store) : store[i].site_id = site_id

\* list.sort(key=created_at, reverse=True): descending, and stable
RECURSIVE SortByCreatedAtDescending(_)
SortByCreatedAtDescending(sites) ==
    IF sites = <<>> THEN <<>>
    ELSE LET first == CHOOSE i \in 1..Len(sites) :
                 /\ \A j \in 1..Len(sites) :
                       ~StrLess(sites[i].created_at.s, sites[j].created_at.s)
                 /\ \A j \in 1..(i - 1) :
                       sites[j].created_at # sites[i].created_at
         IN  <<sites[first]>> \o
             SortByCreatedAtDescending(SubSeq(sites, 1, first - 1)
                                           \o SubSeq(sites, first + 1, Len(sites)))

\* sites[skip : skip + limit]
Slice(sites, skip, limit) ==
    SubSeq(sites, skip + 1,
           IF skip + limit < Len(sites) THEN skip + limit ELSE Len(sites))

\* an HTTPException, which leaves the store as it is
Raise(status_code, detail, store) ==
    [status_code |-> status_code, data |-> Str(<<>>), detail |-> detail,
     store |-> store]

\* create_site; site_id is what uuid.uuid4() gives and now what the clock
\* reads
create_site(store, site_data, user_id, site_id, now) ==
    LET template_obj == get_template_by_id(site_data.template.s)
        checked == validate_config_against_schema(site_data.config,
                                                  template_obj.schema)
        site == [site_id |-> site_id, user_id |-> user_id,
                 title |-> site_data.title, template |-> site_data.template,
                 config |-> site_data.config, status |-> "draft",
                 created_at |-> now, updated_at |-> now]
        at == SiteIndex(store, site_id)
    IN  IF template_obj = None THEN Raise(400, "Template not found", store)
        ELSE IF ~checked.is_valid THEN Raise(400, checked.error, store)
        ELSE [status_code |-> 201, data |-> site, detail |-> "None",
              store |-> IF at = 0 THEN Append(store, site)
                        ELSE [store EXCEPT ![at] = site]]

\* list_sites
list_sites(store, skip, limit, user_id) ==
    LET user_sites == SortByCreatedAtDescending(
                          SelectSeq(store, LAMBDA site : site.user_id = user_id))
    IN  [status_code |-> 200, data |-> List(Slice(user_sites, skip, limit)),
         detail |-> "None", store |-> store]

\* get_site
get_site(store, site_id, user_id) ==
    LET at == SiteIndex(store, site_id)
    IN  IF at = 0 THEN Raise(404, "Site not found", store)
        ELSE IF store[at].user_id # user_id
        THEN Raise(403, "You do not have permission to access this site", store)
        ELSE [status_code |-> 200, data |-> store[at], detail |-> "None",
              store |-> store]

\* update_site without the check of ownership
update_site_any_user(store, site_id, site_data, user_id, now) ==
    LET at == SiteIndex(store, site_id)
        checked == validate_config_against_schema(
                       site_data.config, get_template_schema(store[at].template.s))
        site == [store[at] EXCEPT
                    !.title = IF site_data.title # None THEN site_data.title ELSE @,
                    !.config = IF site_data.config # None THEN site_data.config ELSE @,
                    !.updated_at = now]
    IN  IF at = 0 THEN Raise(404, "Site not found", store)
        ELSE IF site_data.config # None /\ ~checked.is_valid
        THEN Raise(400, checked.error, store)
        ELSE [status_code |-> 200, data |-> site, detail |-> "None",
              store |-> [store EXCEPT ![at] = site]]

\* update_site
update_site(store, site_id, site_data, user_id, now) ==
    LET at == SiteIndex(store, site_id)
        checked == validate_config_against_schema(
                       site_data.config, get_template_schema(store[at].template.s))
        site == [store[at] EXCEPT
                    !.title = IF site_data.title # None THEN site_data.title ELSE @,
                    !.config = IF site_data.config # None THEN site_data.config ELSE @,
                    !.updated_at = now]
    IN  IF at = 0 THEN Raise(404, "Site not found", store)
        ELSE IF store[at].user_id # user_id
        THEN Raise(403, "You do not have permission to update this site", store)
        ELSE IF site_data.config # None /\ ~checked.is_valid
        THEN Raise(400, checked.error, store)
        ELSE [status_code |-> 200, data |-> site, detail |-> "None",
              store |-> [store EXCEPT ![at] = site]]

\* delete_site
delete_site(store, site_id, user_id) ==
    LET at == SiteIndex(store, site_id)
    IN  IF at = 0 THEN Raise(404, "Site not found", store)
        ELSE IF store[at].user_id # user_id
        THEN Raise(403, "You do not have permission to delete this site", store)
        ELSE [status_code |-> 204, data |-> None, detail |-> "None",
              store |-> SubSeq(store, 1, at - 1) \o SubSeq(store, at + 1, Len(store))]

\* the authenticated users: what get_current_user returns
UserIds == {Str(<<100, 105, 100, 58, 112, 108, 99, 58, 116, 101, 115, 116, 49, 50, 51>>), Str(<<100, 105, 100, 58, 112, 108, 99, 58, 111, 116, 104, 101, 114, 52, 53, 54>>)}

\* the values uuid.uuid4() gives the sites
SiteUuids == 1..(MaxSites + 1)

\* what datetime.utcnow().isoformat() + "Z" gives the site requests: one
\* reading, so that the sites of a user tie in created_at and the stable
\* sort keeps them in insertion order
SiteClock == {UtcNow}

BlogConfig == Dict(<<[key |-> <<115, 105, 116, 101, 95, 116, 105, 116, 108, 101>>, val |-> Str(<<84, 101, 115, 116>>)],
                     [key |-> <<97, 117, 116, 104, 111, 114>>, val |-> Str(<<65, 108, 105, 99, 101>>)]>>)

\* the bodies of POST /api/sites
SiteCreate ==
    { [title |-> Str(<<84, 101, 115, 116>>), template |-> Str(<<98, 108, 111, 103>>), config |-> BlogConfig],
      [title |-> Str(<<84, 101, 115, 116>>), template |-> Str(<<110, 111, 110, 101, 120, 105, 115, 116, 101, 110, 116>>), config |-> BlogConfig],
      [title |-> Str(<<84, 101, 115, 116>>), template |-> Str(<<98, 108, 111, 103>>),
       config |-> Dict(<<[key |-> <<115, 105, 116, 101, 95, 116, 105, 116, 108, 101>>, val |-> Str(<<84, 101, 115, 116>>)]>>)],
      [title |-> Str(<<84, 101, 115, 116>>), template |-> Str(<<98, 108, 111, 103>>),
       config |-> SetItemOf(BlogConfig, <<97, 117, 116, 104, 111, 114>>, IntVal(5))],
      [title |-> Str(<<84, 101, 115, 116>>), template |-> Str(<<98, 108, 111, 103>>),
       config |-> SetItemOf(BlogConfig, <<97, 99, 99, 101, 110, 116, 95, 99, 111, 108, 111, 114>>, Str(<<114, 101, 100>>))] }

\* the bodies of PUT /api/sites/{site_id}
SiteUpdate ==
    { [title |-> Str(<<77, 121, 32, 66, 108, 111, 103>>), config |-> None],
      [title |-> None, config |-> Dict(<<>>)] }

InitSites ==
    /\ MemberIdle
    /\ ApiIdle
    /\ HandlerIdle
    /\ RepoIdle
    /\ ConcIdle
    /\ InputIdle
    /\ TidIdle
    /\ CidIdle
    /\ TypeIdle
    /\ SchemaIdle

CreateSite ==
    /\ \E site_data \in SiteCreate, user_id \in UserIds, now \in SiteClock,
          site_id \in SiteUuids \ {SITES_STORE[i].site_id : i \in 1..Len(SITES_STORE)} :
         LET res == create_site(SITES_STORE, site_data, user_id, site_id, now)
         IN  /\ Len(res.store) <= MaxSites
             /\ SITES_STORE' = res.store
             /\ response' = [request |-> [fn |-> "create_site", user_id |-> user_id,
                                          site_data |-> site_data],
                             status_code |-> res.status_code,
                             data |-> res.data]
    /\ UNCHANGED <<CUSTOM_TEMPLATES, tidVars, cidVars, typeVars, schemaVars, inputVars, concVars, repoVars, handlerVars, memberVars>>

ListSites ==
    /\ \E skip \in {0, 1}, limit \in {1, 10}, user_id \in UserIds :
         LET res == list_sites(SITES_STORE, skip, limit, user_id)
         IN  /\ SITES_STORE' = res.store
             /\ response' = [request |-> [fn |-> "list_sites", user_id |-> user_id,
                                          skip |-> skip, limit |-> limit],
                             status_code |-> res.status_code,
                             data |-> res.data]
    /\ UNCHANGED <<CUSTOM_TEMPLATES, tidVars, cidVars, typeVars, schemaVars, inputVars, concVars, repoVars, handlerVars, memberVars>>

GetSite ==
    /\ \E site_id \in SiteUuids, user_id \in UserIds :
         LET res == get_site(SITES_STORE, site_id, user_id)
         IN  /\ SITES_STORE' = res.store
             /\ response' = [request |-> [fn |-> "get_site", user_id |-> user_id,
                                          site_id |-> site_id],
                             status_code |-> res.status_code,
                             data |-> res.data]
    /\ UNCHANGED <<CUSTOM_TEMPLATES, tidVars, cidVars, typeVars, schemaVars, inputVars, concVars, repoVars, handlerVars, memberVars>>

UpdateSite ==
    /\ \E site_id \in SiteUuids, site_data \in SiteUpdate, user_id \in UserIds,
          now \in SiteClock :
         LET res == update_site(SITES_STORE, site_id, site_data, user_id, now)
         IN  /\ SITES_STORE' = res.store
             /\ response' = [request |-> [fn |-> "update_site", user_id |-> user_id,
                                          site_id |-> site_id,
                                          site_data |-> site_data],
                             status_code |-> res.status_code,
                             data |-> res.data]
    /\ UNCHANGED <<CUSTOM_TEMPLATES, tidVars, cidVars, typeVars, schemaVars, inputVars, concVars, repoVars, handlerVars, memberVars>>

DeleteSite ==
    /\ \E site_id \in SiteUuids, user_id \in UserIds :
         LET res == delete_site(SITES_STORE, site_id, user_id)
         IN  /\ SITES_STORE' = res.store
             /\ response' = [request |-> [fn |-> "delete_site", user_id |-> user_id,
                                          site_id |-> site_id],
                             status_code |-> res.status_code,
                             data |-> res.data]
    /\ UNCHANGED <<CUSTOM_TEMPLATES, tidVars, cidVars, typeVars, schemaVars, inputVars, concVars, repoVars, handlerVars, memberVars>>

NextSites == CreateSite \/ ListSites \/ GetSite \/ UpdateSite \/ DeleteSite

SpecSites == InitSites /\ [][NextSites]_vars

---------------------------------------------------------------------------
(* Claims about the sites API, checked under SpecSites *)

\* the sites of the store, as a set
SitesOf(store) == {store[i] : i \in 1..Len(store)}

\* C25: in every step of the sites API, a site whose user_id is not the
\* authenticated user of the request is in SITES_STORE afterwards as it was
\* before; get_site, update_site and delete_site answer 404 for a site_id
\* that is not stored and 403 for a site of another user, leaving
\* SITES_STORE as it was, and answer 200 or 204 only to the owner, get_site
\* with the owner's site; list_sites returns only sites whose user_id is
\* the requester.
C25_OnlyTheOwnerReachesASite ==
    [][LET request == response'.request
           at == SiteIndex(SITES_STORE, request.site_id)
       IN  /\ \A site \in SitesOf(SITES_STORE) :
                 site.user_id # request.user_id => site \in SitesOf(SITES_STORE')
           /\ request.fn \in {"get_site", "update_site", "delete_site"} =>
                 /\ at = 0 =>
                       /\ response'.status_code = 404
                       /\ SITES_STORE' = SITES_STORE
                 /\ (at # 0 /\ SITES_STORE[at].user_id # request.user_id) =>
                       /\ response'.status_code = 403
                       /\ SITES_STORE' = SITES_STORE
                 /\ response'.status_code \in {200, 204} =>
                       /\ at # 0
                       /\ SITES_STORE[at].user_id = request.user_id
                 /\ (request.fn = "get_site" /\ response'.status_code = 200) =>
                       /\ response'.data.site_id = request.site_id
                       /\ response'.data.user_id = request.user_id
           /\ request.fn = "list_sites" =>
                 \A i \in 1..Len(response'.data.m) :
                     /\ response'.data.m[i].val.user_id = request.user_id
                     /\ response'.data.m[i].val \in SitesOf(SITES_STORE)]_vars

\* the store holds a site of each of two users, and the last request, an
\* update_site for the site of the other user, was answered 403
C25_Witness ==
    /\ Len(SITES_STORE) = 2
    /\ SITES_STORE[1].user_id # SITES_STORE[2].user_id
    /\ response.request.fn = "update_site"
    /\ response.status_code = 403
    /\ \E i \in 1..2 :
          /\ SITES_STORE[i].site_id = response.request.site_id
          /\ SITES_STORE[i].user_id # response.request.user_id

---------------------------------------------------------------------------
(* src/api/sites.py: the content endpoints, which keep the posts of a site
   as AT Protocol records in the table.  Each request is taken as one step. *)

\* str(uuid.uuid4()) for the site ids of the model
SiteIdStr(site_id) == <<115, 105, 116, 101, 45, 48, 48>> \o <<48 + site_id>>

\* d.get(key): None when d has no such key
DictGet(d, key) == IF HasKey(d, key) THEN GetItem(d, key) ELSE None

\* {**d, **entries}: the entries set one after the other
RECURSIVE UpdateWith(_, _)
UpdateWith(d, entries) ==
    IF entries = <<>> THEN d
    ELSE UpdateWith(SetItemOf(d, Head(entries).key, Head(entries).val),
                    Tail(entries))

\* {"$type": "app.nbhd.blog.post", **content_data, "site_id": site_id}
ContentValue(content_data, site_id) ==
    SetItemOf(UpdateWith(Dict(<<[key |-> <<36, 116, 121, 112, 101>>, val |-> Collection]>>),
                         content_data.m),
              <<115, 105, 116, 101, 95, 105, 100>>, Str(SiteIdStr(site_id)))

\* the bodies of the content requests
ContentData == RepoValues

\* generate_cid by the value, for the values the content endpoints encode
GenerateCidOfContent ==
    [v \in ContentData \cup {ContentValue(d, s) : d \in ContentData, s \in SiteUuids} |->
        generate_cid("module", v)]

\* query_records: the user's items of the collection, newest first
RECURSIVE SortBySkDescending(_)
SortBySkDescending(items) ==
    IF items = {} THEN <<>>
    ELSE LET first == CHOOSE i \in items :
                 \A j \in items : ~StrLess(i.SK.s, j.SK.s)
         IN  <<first>> \o SortBySkDescending(items \ {first})

query_records(tbl, user_did, collection) ==
    LET prefix == KeyOf(user_did.s, collection.s, <<>>)
    IN  IF validate_did(user_did) # "none" \/ collection.k # "str" \/ collection.s = <<>>
        THEN [err |-> "ValueError", items |-> <<>>]
        ELSE [err |-> "none",
              items |-> SortBySkDescending(
                            {tbl[key] : key \in {k \in DOMAIN tbl :
                                 k[1] = prefix[1] /\ StartsWith(k[2], prefix[2])}})]

\* an HTTPException of a content endpoint, which writes nothing
RaiseContent(status_code, detail, tbl) ==
    [status_code |-> status_code, data |-> Str(<<>>), detail |-> detail,
     table |-> tbl]

\* create_content; rkey is what generate_rkey() returned or raised and
\* timestamp what now_iso() returns
create_content(store, tbl, site_id, content_data, user_id, rkey, timestamp) ==
    LET at == SiteIndex(store, site_id)
        content_value == ContentValue(content_data, site_id)
        cid == GenerateCidOfContent[content_value]
        created == create_record(tbl, user_id, Collection, content_value,
                                 Str(cid.cid), Str(rkey.rkey), timestamp)
    IN  IF at = 0 THEN RaiseContent(404, "Site not found", tbl)
        ELSE IF store[at].user_id # user_id
        THEN RaiseContent(403, "You do not have permission to create content for this site", tbl)
        ELSE IF cid.err # "none" \/ rkey.err # "none"
        THEN RaiseContent(500, "Internal Server Error", tbl)
        ELSE IF created.err # "none"
        THEN RaiseContent(500, "Failed to create content", tbl)
        ELSE [status_code |-> 201, data |-> created.item, detail |-> "None",
              table |-> created.table]

\* list_content
list_content(store, tbl, site_id, skip, limit, user_id) ==
    LET at == SiteIndex(store, site_id)
        records_ == query_records(tbl, user_id, Collection)
        filtered_records ==
            SelectSeq(records_.items,
                      LAMBDA r : DictGet(r.value, <<115, 105, 116, 101, 95, 105, 100>>) = Str(SiteIdStr(site_id)))
    IN  IF at = 0 THEN RaiseContent(404, "Site not found", tbl)
        ELSE IF store[at].user_id # user_id
        THEN RaiseContent(403, "You do not have permission to read content for this site", tbl)
        ELSE IF records_.err # "none"
        THEN RaiseContent(500, "Failed to list content", tbl)
        ELSE [status_code |-> 200,
              data |-> List(Slice(filtered_records, skip, limit)),
              detail |-> "None", table |-> tbl]

\* get_content
get_content(store, tbl, site_id, rkey, user_id) ==
    LET at == SiteIndex(store, site_id)
        uri == Str(FormatUri(user_id.s, Collection.s, rkey))
        record == get_record(tbl, uri)
    IN  IF at = 0 THEN RaiseContent(404, "Site not found", tbl)
        ELSE IF store[at].user_id # user_id
        THEN RaiseContent(403, "You do not have permission to read content for this site", tbl)
        ELSE IF record.err # "none"
        THEN RaiseContent(500, "Failed to get content", tbl)
        ELSE IF record.item = None
        THEN RaiseContent(404, "Content not found", tbl)
        ELSE IF DictGet(record.item.value, <<115, 105, 116, 101, 95, 105, 100>>) # Str(SiteIdStr(site_id))
        THEN RaiseContent(403, "Content does not belong to this site", tbl)
        ELSE [status_code |-> 200, data |-> record.item, detail |-> "None",
              table |-> tbl]

\* update_content; new_rkey and new_cid are what generate_rkey() and
\* generate_cid(content_data) do inside update_record
update_content(store, tbl, site_id, rkey, content_data, user_id, new_rkey, new_cid, timestamp) ==
    LET at == SiteIndex(store, site_id)
        uri == Str(FormatUri(user_id.s, Collection.s, rkey))
        old_record == get_record(tbl, uri)
        updated == update_record(tbl, uri, content_data, new_rkey, new_cid,
                                 timestamp)
    IN  IF at = 0 THEN RaiseContent(404, "Site not found", tbl)
        ELSE IF store[at].user_id # user_id
        THEN RaiseContent(403, "You do not have permission to update content for this site", tbl)
        ELSE IF old_record.err # "none"
        THEN RaiseContent(500, "Failed to update content", tbl)
        ELSE IF old_record.item = None
        THEN RaiseContent(404, "Content not found", tbl)
        ELSE IF DictGet(old_record.item.value, <<115, 105, 116, 101, 95, 105, 100>>) # Str(SiteIdStr(site_id))
        THEN RaiseContent(403, "Content does not belong to this site", tbl)
        ELSE IF updated.err # "none"
        THEN RaiseContent(500, "Failed to update content", tbl)
        ELSE [status_code |-> 200, data |-> updated.item, detail |-> "None",
              table |-> updated.table]

\* the user whose sites hold the content
ContentUser == Str(<<100, 105, 100, 58, 112, 108, 99, 58, 116, 101, 115, 116, 49, 50, 51>>)

InitContent ==
    /\ MemberIdle
    /\ ApiIdle
    /\ HandlerIdle
    /\ RepoIdle
    /\ ConcIdle
    /\ InputIdle
    /\ TidIdle
    /\ CidIdle
    /\ TypeIdle
    /\ SchemaIdle

\* POST /api/sites by the user, while the user has no site
CreateContentSite ==
    /\ SITES_STORE = <<>>
    /\ \E site_id \in SiteUuids, now \in SiteClock :
         LET site_data == [title |-> Str(<<84, 101, 115, 116>>), template |-> Str(<<98, 108, 111, 103>>),
                           config |-> BlogConfig]
             res == create_site(SITES_STORE, site_data, ContentUser, site_id, now)
         IN  /\ SITES_STORE' = res.store
             /\ response' = [request |-> [fn |-> "create_site",
                                          user_id |-> ContentUser,
                                          site_data |-> site_data],
                             status_code |-> res.status_code,
                             data |-> res.data]
    /\ UNCHANGED <<CUSTOM_TEMPLATES, tidVars, cidVars, typeVars, schemaVars, inputVars, concVars, repoVars, handlerVars, memberVars>>

CreateContent ==
    /\ \E site_id \in SiteUuids, content_data \in ContentData,
          timestamp_us \in RepoClock, random_bits \in RepoRandom,
          timestamp \in NowReadings :
         LET res == create_content(SITES_STORE, table, site_id, content_data,
                                   ContentUser,
                                   GenerateRkeyOf[timestamp_us, random_bits],
                                   timestamp)
         IN  /\ table' = res.table
             /\ response' = [request |-> [fn |-> "create_content",
                                          user_id |-> ContentUser,
                                          site_id |-> site_id,
                                          content_data |-> content_data],
                             status_code |-> res.status_code,
                             data |-> res.data]
    /\ UNCHANGED <<SITES_STORE, CUSTOM_TEMPLATES, lastOp, tidVars, cidVars, typeVars, schemaVars, inputVars, concVars, handlerVars, memberVars>>

ListContent ==
    /\ \E site_id \in SiteUuids, skip \in {0, 1}, limit \in {1, 10} :
         LET res == list_content(SITES_STORE, table, site_id, skip, limit,
                                 ContentUser)
         IN  response' = [request |-> [fn |-> "list_content",
                                       user_id |-> ContentUser,
                                       site_id |-> site_id,
                                       skip |-> skip, limit |-> limit],
                          status_code |-> res.status_code,
                          data |-> res.data]
    /\ UNCHANGED <<SITES_STORE, CUSTOM_TEMPLATES, tidVars, cidVars, typeVars, schemaVars, inputVars, concVars, repoVars, handlerVars, memberVars>>

GetContent ==
    /\ \E site_id \in SiteUuids, rkey \in RepoRkeys :
         LET res == get_content(SITES_STORE, table, site_id, rkey.s, ContentUser)
         IN  response' = [request |-> [fn |-> "get_content",
                                       user_id |-> ContentUser,
                                       site_id |-> site_id, rkey |-> rkey],
                          status_code |-> res.status_code,
                          data |-> res.data]
    /\ UNCHANGED <<SITES_STORE, CUSTOM_TEMPLATES, tidVars, cidVars, typeVars, schemaVars, inputVars, concVars, repoVars, handlerVars, memberVars>>

UpdateContent ==
    /\ \E site_id \in SiteUuids, rkey \in RepoRkeys, content_data \in ContentData,
          timestamp_us \in RepoClock, random_bits \in RepoRandom,
          timestamp \in NowReadings :
         LET res == update_content(SITES_STORE, table, site_id, rkey.s,
                                   content_data, ContentUser,
                                   GenerateRkeyOf[timestamp_us, random_bits],
                                   GenerateCidOfContent[content_data],
                                   timestamp)
         IN  /\ table' = res.table
             /\ response' = [request |-> [fn |-> "update_content",
                                          user_id |-> ContentUser,
                                          site_id |-> site_id, rkey |-> rkey,
                                          content_data |-> content_data],
                             status_code |-> res.status_code,
                             data |-> res.data]
    /\ UNCHANGED <<SITES_STORE, CUSTOM_TEMPLATES, lastOp, tidVars, cidVars, typeVars, schemaVars, inputVars, concVars, handlerVars, memberVars>>

NextContent ==
    CreateContentSite \/ CreateContent \/ ListContent \/ GetContent \/ UpdateContent

SpecContent == InitContent /\ [][NextContent]_vars

---------------------------------------------------------------------------
(* Claims about the content endpoints, checked under SpecContent *)

\* C30: when update_content(site_id, rkey, content_data) has answered 200,
\* the value of the new record version has site_id equal to the site, the
\* new version is among what list_content(site_id) returns, and
\* get_content(site_id, new rkey) answers 200 with it.
C30_NewVersionStaysWithItsSite ==
    (response.request.fn = "update_content" /\ response.status_code = 200) =>
        LET site_id == response.request.site_id
            new_record == response.data
            listed == list_content(SITES_STORE, table, site_id, 0, 10,
                                   response.request.user_id)
            got == get_content(SITES_STORE, table, site_id, new_record.rkey.s,
                               response.request.user_id)
        IN  /\ DictGet(new_record.value, <<115, 105, 116, 101, 95, 105, 100>>) = Str(SiteIdStr(site_id))
            /\ listed.status_code = 200
            /\ \E i \in 1..Len(listed.data.m) : listed.data.m[i].val = new_record
            /\ got.status_code = 200
            /\ got.data = new_record

---------------------------------------------------------------------------
(* src/api/dynamodb_repository.py: memberships.  create_membership and
   delete_membership are coroutines; each awaited table request is one
   step, and the steps of different calls interleave. *)

\* how many membership calls a behaviour starts
MaxMembershipCalls == 3

\* the neighborhood the calls are about
NbhdId == <<110, 98, 104, 100, 45, 49>>

\* the users who join and leave
MemberIds == {<<100, 105, 100, 58, 112, 108, 99, 58, 116, 101, 115, 116, 49, 50, 51>>, <<100, 105, 100, 58, 112, 108, 99, 58, 111, 116, 104, 101, 114, 52, 53, 54>>}

\* Key={"PK": f"NBHD#{nbhd_id}", "SK": "METADATA"}
MetadataKey(nbhd_id) == <<<<78, 66, 72, 68, 35>> \o nbhd_id, <<77, 69, 84, 65, 68, 65, 84, 65>>>>

\* Key={"PK": f"NBHD#{nbhd_id}", "SK": f"MEMBER#{user_id}"}
MemberKey(user_id, nbhd_id) == <<<<78, 66, 72, 68, 35>> \o nbhd_id, <<77, 69, 77, 66, 69, 82, 35>> \o user_id>>

\* table.delete_item(Key=key)
delete_item(tbl, key) == [k \in DOMAIN tbl \ {key} |-> tbl[k]]

\* table.update_item(Key=key, UpdateExpression="ADD member_count :n"):
\* ADD starts a missing attribute, and a missing item, from 0
update_item_add(tbl, key, n) ==
    LET old == IF key \in DOMAIN tbl THEN tbl[key]
               ELSE [PK |-> Str(key[1]), SK |-> Str(key[2])]
        was == IF "member_count" \in DOMAIN old THEN old.member_count ELSE 0
        new == [f \in DOMAIN old \cup {"member_count"} |->
                   IF f = "member_count" THEN was + n ELSE old[f]]
    IN  put_item(tbl, new)

\* get_membership
get_membership(tbl, user_id, nbhd_id) == get_item(tbl, MemberKey(user_id, nbhd_id))

\* get_neighborhood
get_neighborhood(tbl, nbhd_id) == get_item(tbl, MetadataKey(nbhd_id))

\* nbhd.get("member_count", 0)
MemberCountOf(nbhd) ==
    IF "member_count" \in DOMAIN nbhd THEN nbhd.member_count ELSE 0

\* the MEMBER items of the neighborhood
MemberItems(tbl, nbhd_id) ==
    {k \in DOMAIN tbl : k[1] = <<78, 66, 72, 68, 35>> \o nbhd_id /\ StartsWith(k[2], <<77, 69, 77, 66, 69, 82, 35>>)}

\* the item create_membership builds
MembershipItem(user_id, nbhd_id, timestamp) ==
    [PK |-> Str(<<78, 66, 72, 68, 35>> \o nbhd_id), SK |-> Str(<<77, 69, 77, 66, 69, 82, 35>> \o user_id),
     user_id |-> Str(user_id), neighborhood_id |-> Str(nbhd_id),
     joined_at |-> timestamp, entity_type |-> Str(<<109, 101, 109, 98, 101, 114, 115, 104, 105, 112>>)]

\* create_membership up to its first write: the check of the existing item
create_membership_check(tbl, task) ==
    LET existing == get_membership(tbl, task.user_id, task.nbhd_id)
    IN  IF existing # None
        THEN [task EXCEPT !.pc = "raised", !.result = "ValueError"]
        ELSE [task EXCEPT !.pc = "put_item"]

\* delete_membership up to its first write
delete_membership_check(tbl, task) ==
    LET existing == get_membership(tbl, task.user_id, task.nbhd_id)
    IN  IF existing = None
        THEN [task EXCEPT !.pc = "returned", !.result = "False"]
        ELSE [task EXCEPT !.pc = "delete_item"]

\* the neighborhood exists and has no member yet
InitMembership ==
    /\ ApiIdle
    /\ HandlerIdle
    /\ table = (MetadataKey(NbhdId) :> [PK |-> Str(MetadataKey(NbhdId)[1]),
                                        SK |-> Str(MetadataKey(NbhdId)[2])])
    /\ lastOp = NoOp
    /\ ConcIdle
    /\ InputIdle
    /\ TidIdle
    /\ CidIdle
    /\ TypeIdle
    /\ SchemaIdle
    /\ MemberIdle

At(i, fn, pc) ==
    /\ i \in 1..Len(tasks)
    /\ tasks[i].fn = fn
    /\ tasks[i].pc = pc

\* a request calls create_membership or delete_membership
CallMembership ==
    /\ Len(tasks) < MaxMembershipCalls
    /\ \E fn \in {"create_membership", "delete_membership"}, user_id \in MemberIds :
         tasks' = Append(tasks, [fn |-> fn, user_id |-> user_id,
                                 nbhd_id |-> NbhdId, pc |-> "get_membership",
                                 result |-> "none"])
    /\ UNCHANGED <<tidVars, cidVars, typeVars, schemaVars, inputVars, concVars, repoVars, handlerVars, apiVars>>

\* create_membership: existing = await get_membership(...); raise if found
CreateGetMembership ==
    /\ \E i \in 1..Len(tasks) :
         /\ At(i, "create_membership", "get_membership")
         /\ tasks' = [tasks EXCEPT ![i] = create_membership_check(table, tasks[i])]
    /\ UNCHANGED <<tidVars, cidVars, typeVars, schemaVars, inputVars, concVars, repoVars, handlerVars, apiVars>>

\* create_membership: await table.put_item(Item=item)
CreatePutItem ==
    /\ \E i \in 1..Len(tasks), timestamp \in NowReadings :
         /\ At(i, "create_membership", "put_item")
         /\ table' = put_item(table, MembershipItem(tasks[i].user_id,
                                                     tasks[i].nbhd_id, timestamp))
         /\ tasks' = [tasks EXCEPT ![i].pc = "update_item"]
    /\ UNCHANGED <<lastOp, tidVars, cidVars, typeVars, schemaVars, inputVars, concVars, handlerVars, apiVars>>

\* create_membership: await table.update_item(... ADD member_count 1); return item
CreateUpdateItem ==
    /\ \E i \in 1..Len(tasks) :
         /\ At(i, "create_membership", "update_item")
         /\ table' = update_item_add(table, MetadataKey(tasks[i].nbhd_id), 1)
         /\ tasks' = [tasks EXCEPT ![i].pc = "returned", ![i].result = "item"]
    /\ UNCHANGED <<lastOp, tidVars, cidVars, typeVars, schemaVars, inputVars, concVars, handlerVars, apiVars>>

\* delete_membership: existing = await get_membership(...); return False if none
DeleteGetMembership ==
    /\ \E i \in 1..Len(tasks) :
         /\ At(i, "delete_membership", "get_membership")
         /\ tasks' = [tasks EXCEPT ![i] = delete_membership_check(table, tasks[i])]
    /\ UNCHANGED <<tidVars, cidVars, typeVars, schemaVars, inputVars, concVars, repoVars, handlerVars, apiVars>>

\* delete_membership: await table.delete_item(Key=...)
DeleteDeleteItem ==
    /\ \E i \in 1..Len(tasks) :
         /\ At(i, "delete_membership", "delete_item")
         /\ table' = delete_item(table, MemberKey(tasks[i].user_id, tasks[i].nbhd_id))
         /\ tasks' = [tasks EXCEPT ![i].pc = "update_item"]
    /\ UNCHANGED <<lastOp, tidVars, cidVars, typeVars, schemaVars, inputVars, concVars, handlerVars, apiVars>>

\* delete_membership: await table.update_item(... ADD member_count -1); return True
DeleteUpdateItem ==
    /\ \E i \in 1..Len(tasks) :
         /\ At(i, "delete_membership", "update_item")
         /\ table' = update_item_add(table, MetadataKey(tasks[i].nbhd_id), -1)
         /\ tasks' = [tasks EXCEPT ![i].pc = "returned", ![i].result = "True"]
    /\ UNCHANGED <<lastOp, tidVars, cidVars, typeVars, schemaVars, inputVars, concVars, handlerVars, apiVars>>

NextMembership ==
    \/ CallMembership
    \/ CreateGetMembership
    \/ CreatePutItem
    \/ CreateUpdateItem
    \/ DeleteGetMembership
    \/ DeleteDeleteItem
    \/ DeleteUpdateItem

SpecMembership == InitMembership /\ [][NextMembership]_vars

---------------------------------------------------------------------------
(* Claims about memberships, checked under SpecMembership *)

\* every call that was started has returned or raised
AllCallsEnded ==
    \A i \in 1..Len(tasks) : tasks[i].pc \in {"returned", "raised"}

\* C29: once every create_membership and delete_membership call has ended,
\* however their requests interleaved, the neighborhood's member_count is
\* the number of stored MEMBER items; and of two create_membership calls
\* for one user that no delete_membership for that user came between (none
\* was called at all), at most one has returned its item.
C29_MemberCountIsNumberOfMembers ==
    /\ AllCallsEnded =>
           MemberCountOf(get_neighborhood(table, NbhdId)) =
               Cardinality(MemberItems(table, NbhdId))
    /\ \A i, j \in 1..Len(tasks) :
           (/\ i # j
            /\ tasks[i].fn = "create_membership"
            /\ tasks[j].fn = "create_membership"
            /\ tasks[i].user_id = tasks[j].user_id
            /\ \A d \in 1..Len(tasks) :
                   ~(tasks[d].fn = "delete_membership" /\ tasks[d].user_id = tasks[i].user_id))
           => ~(tasks[i].result = "item" /\ tasks[j].result = "item")

====
